---- MODULE Spec2Model ----
\* lieweb dispatch core: route table (Router over a route_recognizer path
\* router), request context, middleware chain (Next) and endpoints.
\*
\* Strings are sequences of one-character strings: "/a/:i" is
\* <<"/", "a", "/", ":", "i">>.  A parameter name is the text after the
\* leading ':' or '*' of a pattern segment.
EXTENDS Integers, Sequences, FiniteSets, TLC

VARIABLES
    routers,        \* router id -> Router {middlewares, handle_not_found, path_router}
    alive,          \* router values not yet moved (into merge, or into run/respond)
    merge_result,   \* result of the latest Router::merge call: "none", "Ok", "Err"
    pc,             \* position of the request task
    req,            \* the hyper request: method and URI path
    ctx,            \* RequestCtx of the request: params, route_path
    callee,         \* the router whose route() is about to run
    next,           \* the live Next value: endpoint, router, remaining middlewares
    sel,            \* the Selection returned by the latest find()
    stack,          \* middlewares awaiting next.run(), innermost last
    resp,           \* the response travelling back up
    log,            \* middlewares entered and endpoints called, in order
    parts,          \* the request as RequestParts: query, Content-Type, body slot, extensions
    args,           \* results of the from_request calls of the handler, in order
    held,           \* the request an extractor took whole and gave to the handler
    ran,            \* whether the handler body was invoked
    calls,          \* body reads and get_param calls of the request, with results
    ret,            \* the value the handler body returned
    local,          \* locals of the running handler body: the mutex guard, the value read
    nf_set,         \* router id -> handler of its latest set_not_found_handler call, or ""
    cur,            \* the task that is running
    others,         \* task id -> the state of the request task that is not running
    mutex,          \* holder of the application state's Mutex: a task id, or 0
    counter,        \* the u64 behind the application state's Mutex
    reports,        \* the counter values the responses written so far carried
    count,          \* the AtomicU64 of the RequestId middleware
    access_log,     \* the records the AccessLog middleware has emitted
    reg_call,       \* the arguments of the latest register call, or none
    dh,             \* a DefaultHeaders middleware and the request it handles
    srv,            \* the accept loop of App::run and its connections
    cp,             \* the latest find_commprefix call and its result
    sd              \* a Shutdown, its Watchers and the shutdown() future

vars == <<routers, alive, merge_result, pc, req, ctx, callee, next, sel, stack, resp, log,
          parts, args, held, ran, calls, ret, local, nf_set, cur, others, mutex, counter,
          reports, count, access_log, reg_call, dh, srv, cp, sd>>

\* What belongs to the tasks of the server and to the state they share.
tvars == <<local, cur, others, mutex, counter, reports>>

\* What the built-in middlewares keep outside the request.
gvars == <<count, access_log>>

\* The parts of the program that are used on their own.
ovars == <<reg_call, dh, srv, cp, sd>>

-----------------------------------------------------------------------------
\* Bounds of the model

\* Most registrations (method, pattern) the set-up makes over all routers.
MaxRoutes == 2
\* Most middlewares the set-up pushes over all routers.
MaxMw == 2
\* Most segments in a request path.
MaxSegs == 3

Routers == {0, 1, 2}
Root == 0
Letters == {"a", "b"}
Methods == {"GET", "POST", "HEAD"}
Handlers == {"h1", "h2"}
MwIds == {"A", "B"}
\* A closure middleware that answers by itself and drops its Next.
ShortMw == "S"
ShortMwIds == {"A", ShortMw}
\* A middleware that forwards the request with its method rewritten.
RewriteMw == "R"
RewriteMwIds == {"A", RewriteMw}

-----------------------------------------------------------------------------
\* Program constants

LIEWEB_NESTED_ROUTER == <<"--lieweb-nested-router">>
OK == 200
NOT_FOUND == 404
METHOD_NOT_ALLOWED == 405
BAD_REQUEST == 400
INTERNAL_SERVER_ERROR == 500

-----------------------------------------------------------------------------
\* String helpers (std::str)

starts_with(s, c) == Len(s) > 0 /\ s[1] = c
ends_with(s, c) == Len(s) > 0 /\ s[Len(s)] = c

\* Index of the first c in s, or Len(s) + 1.
RECURSIVE FindChar(_, _, _)
FindChar(s, c, i) ==
    IF i > Len(s) THEN i
    ELSE IF s[i] = c THEN i
    ELSE FindChar(s, c, i + 1)

\* str::split('/'): the pieces between separators; one piece for "".
RECURSIVE Split(_)
Split(s) ==
    LET i == FindChar(s, "/", 1) IN
    IF i > Len(s) THEN <<s>>
    ELSE <<SubSeq(s, 1, i - 1)>> \o Split(SubSeq(s, i + 1, Len(s)))

\* "/" followed by the segments joined with "/".
RECURSIVE Join(_)
Join(segs) ==
    IF segs = <<>> THEN <<>>
    ELSE <<"/">> \o segs[1] \o Join(Tail(segs))

RECURSIVE SeqsUpTo(_, _)
SeqsUpTo(S, n) ==
    IF n = 0 THEN {<<>>}
    ELSE LET shorter == SeqsUpTo(S, n - 1) IN
         shorter \cup {Append(q, x) : q \in shorter, x \in S}

\* URI paths a request may carry: "/" then up to MaxSegs segments, each empty
\* or one letter.
Paths == {Join(segs) : segs \in SeqsUpTo({<<>>} \cup {<<l>> : l \in Letters}, MaxSegs) \ {<<>>}}

-----------------------------------------------------------------------------
\* route_recognizer::Router as used by router.rs

\* Both add() and recognize() drop one leading '/'.
StripSlash(s) == IF starts_with(s, "/") THEN Tail(s) ELSE s

SegKind(seg) ==
    IF starts_with(seg, ":") THEN "dynamic"
    ELSE IF starts_with(seg, "*") THEN "star"
    ELSE "static"

CountKind(segs, kind) == Cardinality({i \in 1..Len(segs) : SegKind(segs[i]) = kind})

\* Metadata of an added route: how many segments of each kind it has.
Metadata(route) ==
    LET segs == Split(StripSlash(route)) IN
    [statics |-> CountKind(segs, "static"),
     dynamics |-> CountKind(segs, "dynamic"),
     wildcards |-> CountKind(segs, "star")]

\* Ord for Metadata that ranks a route with a wildcard below any without.
MetaLess_wildcards_first(x, y) ==
    IF x.wildcards # y.wildcards THEN x.wildcards > y.wildcards
    ELSE IF x.statics # y.statics THEN x.statics < y.statics
    ELSE x.dynamics < y.dynamics

\* Ord for Metadata: statics, then dynamics, then wildcards.
MetaLess(x, y) ==
    IF x.statics # y.statics THEN x.statics < y.statics
    ELSE IF x.dynamics # y.dynamics THEN x.dynamics < y.dynamics
    ELSE x.wildcards < y.wildcards

NoMatch == [ok |-> FALSE, params |-> <<>>]

\* Params::insert (a BTreeMap: a later insert of a name replaces the value).
ParamsInsert(params, k, v) ==
    [n \in DOMAIN params \cup {k} |-> IF n = k THEN v ELSE params[n]]

\* The NFA of one route run over the rest of a path: segment k of the route
\* against `rest`, a '/' expected between segments.  A static segment
\* consumes its own characters, a dynamic one a non-empty run without '/',
\* a star segment a non-empty run of any characters (every star segment of
\* the model is the last of its route, so the run is the whole rest).
RECURSIVE MatchSegs(_, _, _, _)
MatchSegs(segs, k, rest, params) ==
    IF k > Len(segs) THEN
        IF rest = <<>> THEN [ok |-> TRUE, params |-> params] ELSE NoMatch
    ELSE IF k > 1 /\ ~starts_with(rest, "/") THEN NoMatch
    ELSE
        LET r == IF k > 1 THEN Tail(rest) ELSE rest
            seg == segs[k]
            name == Tail(seg)
        IN
        CASE SegKind(seg) = "static" ->
                IF Len(r) >= Len(seg) /\ SubSeq(r, 1, Len(seg)) = seg
                THEN MatchSegs(segs, k + 1, SubSeq(r, Len(seg) + 1, Len(r)), params)
                ELSE NoMatch
          [] SegKind(seg) = "dynamic" ->
                LET n == FindChar(r, "/", 1) - 1 IN
                IF n >= 1
                THEN MatchSegs(segs, k + 1, SubSeq(r, n + 1, Len(r)),
                               IF name # <<>> THEN ParamsInsert(params, name, SubSeq(r, 1, n))
                               ELSE params)
                ELSE NoMatch
          [] OTHER ->
                IF Len(r) >= 1
                THEN MatchSegs(segs, k + 1, <<>>,
                               IF name # <<>> THEN ParamsInsert(params, name, r) ELSE params)
                ELSE NoMatch

MatchRoute(route, path) == MatchSegs(Split(StripSlash(route)), 1, StripSlash(path), <<>>)

\* Router::recognize: the matching route with the greatest Metadata, with
\* its handler and captures; Err when no route matches.
recognize(path_router, path) ==
    LET cands == {p \in DOMAIN path_router : MatchRoute(p, path).ok} IN
    IF cands = {} THEN [ok |-> FALSE, route |-> <<>>, params |-> <<>>]
    ELSE LET best == CHOOSE p \in cands :
                        \A q \in cands \ {p} : MetaLess(Metadata(q), Metadata(p))
         IN [ok |-> TRUE, route |-> best, params |-> MatchRoute(best, path).params]

-----------------------------------------------------------------------------
\* Endpoints, routes and routers (endpoint.rs, router.rs)

\* A DynEndpoint: an adapted handler, a RouterEndpoint, or one of the two
\* canned endpoints of router.rs.
HandlerEp(h) == [kind |-> "handler", h |-> h, r |-> -1]
RouterEndpoint(r) == [kind |-> "router", h |-> "", r |-> r]
not_found_endpoint == [kind |-> "not_found", h |-> "", r |-> -1]
method_not_allowed == [kind |-> "method_not_allowed", h |-> "", r |-> -1]

\* enum Route { Method(MethodRoute), Sub(RouterEndpoint), Empty }
RouteMethod(map) == [kind |-> "Method", map |-> map, sub |-> -1]
RouteSub(r) == [kind |-> "Sub", map |-> <<>>, sub |-> r]
RouteEmpty == [kind |-> "Empty", map |-> <<>>, sub |-> -1]

\* An insert that keeps the value the map already holds for the key.
MapInsert_keep_first(map, method, h) ==
    [m \in DOMAIN map \cup {method} |-> IF m \in DOMAIN map THEN map[m] ELSE h]

\* HashMap::insert on a MethodRoute.
MapInsert(map, method, h) ==
    [m \in DOMAIN map \cup {method} |-> IF m = method THEN h ELSE map[m]]

\* Router::new
NewRouter ==
    [middlewares |-> <<>>,
     handle_not_found |-> not_found_endpoint,
     path_router |-> <<>>]

\* PathRouter::add / the slot at_or_default hands back, written with `route`.
PathRouterPut(path_router, path, route) ==
    [p \in DOMAIN path_router \cup {path} |-> IF p = path THEN route ELSE path_router[p]]

at_or_default(path_router, path) ==
    IF path \in DOMAIN path_router THEN path_router[path] ELSE RouteEmpty

\* Route patterns and mount prefixes the set-up chooses from.
PatRoot == <<"/">>
PatA == <<"/", "a">>
PatParam == <<"/", ":", "i">>
PatEdit == <<"/", "a", "/", ":", "i", "/", "b">>
PatParamJ == <<"/", ":", "j">>
RoutePatterns == {PatRoot, PatA, PatParam, PatEdit}
SubPatterns == {PatA, PatParam, PatParamJ}

PrefixA == <<"/", "a", "/">>
PrefixParam == <<"/", ":", "i", "/">>
PrefixNoEnd == <<"/", "a">>
PrefixNoStart == <<"b", "/">>
Prefixes == {PrefixA, PrefixParam, PrefixNoEnd, PrefixNoStart}

\* The states of the path router's NFA a route ends in: its segments with
\* the parameter names dropped.  Two routes of one shape are one route of
\* the path router; the set-up of the model never registers both.
Shape(route) ==
    LET segs == Split(StripSlash(route)) IN
    [i \in 1..Len(segs) |-> IF SegKind(segs[i]) = "static" THEN segs[i] ELSE <<segs[i][1]>>]

ShapeClash(path_router, path) ==
    \E p \in DOMAIN path_router : p # path /\ Shape(p) = Shape(path)

\* The routes registered in one router / in all of them.
RouteCount(router) ==
    LET pr == router.path_router
        Sizes == [p \in DOMAIN pr |-> Cardinality(DOMAIN pr[p].map)]
        RECURSIVE Sum(_)
        Sum(S) == IF S = {} THEN 0
                  ELSE LET p == CHOOSE x \in S : TRUE IN Sizes[p] + Sum(S \ {p})
    IN Sum(DOMAIN pr)

RECURSIVE SumOver(_, _)
SumOver(f, S) ==
    IF S = {} THEN 0
    ELSE LET x == CHOOSE y \in S : TRUE IN f[x] + SumOver(f, S \ {x})

TotalRoutes(rs) == SumOver([r \in Routers |-> RouteCount(rs[r])], Routers)
TotalMw(rs) == SumOver([r \in Routers |-> Len(rs[r].middlewares)], Routers)

\* Router::register
register(router, method, path, h) ==
    LET route == at_or_default(router.path_router, path) IN
    [router EXCEPT !.path_router =
        PathRouterPut(@, path, RouteMethod(MapInsert(route.map, method, h)))]

\* Router::middleware
middleware(router, m) == [router EXCEPT !.middlewares = Append(@, m)]

\* Router::set_not_found_handler
set_not_found_handler(router, h) == [router EXCEPT !.handle_not_found = HandlerEp(h)]

\* The prefix check of merge() with the test of the last character left out.
MergeOk_start_only(prefix) == starts_with(prefix, "/")

\* Router::merge: the prefix check, then the sub-router added under
\* prefix + "*" + LIEWEB_NESTED_ROUTER.
MergeOk(prefix) == ~(~starts_with(prefix, "/") \/ ~ends_with(prefix, "/"))

merge(router, prefix, sub) ==
    IF ~MergeOk(prefix) THEN router
    ELSE [router EXCEPT !.path_router =
            PathRouterPut(@, prefix \o <<"*">> \o LIEWEB_NESTED_ROUTER, RouteSub(sub))]

\* find() with the endpoint of the route taken whatever the method is.
find_any_method(router, path, method) ==
    LET m == recognize(router.path_router, path) IN
    IF m.ok THEN
        LET route == router.path_router[m.route] IN
        CASE route.kind = "Method" ->
                IF DOMAIN route.map # {}
                THEN [endpoint |-> HandlerEp(route.map[CHOOSE x \in DOMAIN route.map : TRUE]),
                      params |-> m.params]
                ELSE [endpoint |-> router.handle_not_found, params |-> <<>>]
          [] route.kind = "Sub" ->
                [endpoint |-> RouterEndpoint(route.sub), params |-> m.params]
          [] OTHER ->
                [endpoint |-> router.handle_not_found, params |-> <<>>]
    ELSE [endpoint |-> router.handle_not_found, params |-> <<>>]

\* find() with the is_empty() test on the method map turned around.
find_empty_swapped(router, path, method) ==
    LET m == recognize(router.path_router, path) IN
    IF m.ok THEN
        LET route == router.path_router[m.route] IN
        CASE route.kind = "Method" ->
                IF method \in DOMAIN route.map
                THEN [endpoint |-> HandlerEp(route.map[method]), params |-> m.params]
                ELSE IF DOMAIN route.map # {}
                THEN [endpoint |-> router.handle_not_found, params |-> <<>>]
                ELSE [endpoint |-> method_not_allowed, params |-> <<>>]
          [] route.kind = "Sub" ->
                [endpoint |-> RouterEndpoint(route.sub), params |-> m.params]
          [] OTHER ->
                [endpoint |-> router.handle_not_found, params |-> <<>>]
    ELSE [endpoint |-> router.handle_not_found, params |-> <<>>]

\* find() handing back fresh Params with the matched endpoint.
find_no_params(router, path, method) ==
    LET m == recognize(router.path_router, path) IN
    IF m.ok THEN
        LET route == router.path_router[m.route] IN
        CASE route.kind = "Method" ->
                IF method \in DOMAIN route.map
                THEN [endpoint |-> HandlerEp(route.map[method]), params |-> <<>>]
                ELSE IF DOMAIN route.map = {}
                THEN [endpoint |-> router.handle_not_found, params |-> <<>>]
                ELSE [endpoint |-> method_not_allowed, params |-> <<>>]
          [] route.kind = "Sub" ->
                [endpoint |-> RouterEndpoint(route.sub), params |-> m.params]
          [] OTHER ->
                [endpoint |-> router.handle_not_found, params |-> <<>>]
    ELSE [endpoint |-> router.handle_not_found, params |-> <<>>]

\* find() answering with the canned not-found endpoint whatever handler
\* the router was given.
find_default_not_found(router, path, method) ==
    LET m == recognize(router.path_router, path) IN
    IF m.ok THEN
        LET route == router.path_router[m.route] IN
        CASE route.kind = "Method" ->
                IF method \in DOMAIN route.map
                THEN [endpoint |-> HandlerEp(route.map[method]), params |-> m.params]
                ELSE IF DOMAIN route.map = {}
                THEN [endpoint |-> not_found_endpoint, params |-> <<>>]
                ELSE [endpoint |-> method_not_allowed, params |-> <<>>]
          [] route.kind = "Sub" ->
                [endpoint |-> RouterEndpoint(route.sub), params |-> m.params]
          [] OTHER ->
                [endpoint |-> not_found_endpoint, params |-> <<>>]
    ELSE [endpoint |-> not_found_endpoint, params |-> <<>>]

\* Router::find
find(router, path, method) ==
    LET m == recognize(router.path_router, path) IN
    IF m.ok THEN
        LET route == router.path_router[m.route] IN
        CASE route.kind = "Method" ->
                IF method \in DOMAIN route.map
                THEN [endpoint |-> HandlerEp(route.map[method]), params |-> m.params]
                ELSE IF DOMAIN route.map = {}
                THEN [endpoint |-> router.handle_not_found, params |-> <<>>]
                ELSE [endpoint |-> method_not_allowed, params |-> <<>>]
          [] route.kind = "Sub" ->
                [endpoint |-> RouterEndpoint(route.sub), params |-> m.params]
          [] OTHER ->
                [endpoint |-> router.handle_not_found, params |-> <<>>]
    ELSE [endpoint |-> router.handle_not_found, params |-> <<>>]

-----------------------------------------------------------------------------
\* Request context (request.rs)

None == [some |-> FALSE, path |-> <<>>]
Some(path) == [some |-> TRUE, path |-> path]

\* RequestCtx::init
NewCtx == [params |-> <<>>, route_path |-> None]

\* route_path() that reads the URI path whatever the cursor holds.
route_path_uri(c, uri) == uri

\* RequestCtx::route_path
route_path(c, uri) == IF c.route_path.some THEN c.route_path.path ELSE uri

\* path() that returns what is left of the path for the router at hand.
LieRequest_path_cursor(r, c) == route_path(c, r.uri)

\* LieRequest::path: the path of the request's URI.
LieRequest_path(r, c) == r.uri

\* RequestCtx::set_route_path
set_route_path(c, path) == [c EXCEPT !.route_path = Some(path)]

\* merge_params() that keeps a value the context already holds for a name.
merge_params_keep(c, other) ==
    [c EXCEPT !.params =
        [n \in DOMAIN c.params \cup DOMAIN other |->
            IF n \in DOMAIN c.params THEN c.params[n] ELSE other[n]]]

\* RequestCtx::merge_params
merge_params(c, other) ==
    [c EXCEPT !.params =
        [n \in DOMAIN c.params \cup DOMAIN other |->
            IF n \in DOMAIN other THEN other[n] ELSE c.params[n]]]

\* route() that merges the captures and leaves the route path alone.
route_ctx_no_cursor(c, params) == merge_params(c, params)

\* Router::route, the request context after find(): the captures merged,
\* and the route path set to the nested-router capture when there is one.
route_ctx(c, params) ==
    IF LIEWEB_NESTED_ROUTER \in DOMAIN params
    THEN set_route_path(merge_params(c, params), params[LIEWEB_NESTED_ROUTER])
    ELSE merge_params(c, params)

-----------------------------------------------------------------------------
\* Responses

NoResp == [status |-> 0, body |-> "", headers |-> <<>>]
\* IntoResponse for &'static str: the text as body, default status.
HandlerResponse(h) == [status |-> OK, body |-> h, headers |-> <<"text/plain; charset=utf-8">>]
StatusResponse(code) == [status |-> code, body |-> "", headers |-> <<>>]

\* Endpoint::call for the endpoints that answer themselves.
EndpointResponse(ep) ==
    CASE ep.kind = "handler" -> HandlerResponse(ep.h)
      [] ep.kind = "not_found" -> StatusResponse(NOT_FOUND)
      [] OTHER -> StatusResponse(METHOD_NOT_ALLOWED)

-----------------------------------------------------------------------------
\* The request as the extractors see it (RequestParts) and the extraction
\* protocol (extracts.rs, request.rs)

\* A Content-Type header value is <<type, subtype>>, <<>> when the header is
\* absent and one word when the value is no mime type.
NoHeader == <<>>
APPLICATION_JSON == <<"application", "json">>
TEXT_PLAIN == <<"text", "plain">>
APPLICATION_WWW_FORM_URLENCODED == <<"application", "x-www-form-urlencoded">>
TEXT_WWW_FORM_URLENCODED == <<"text", "x-www-form-urlencoded">>
APPLICATION_OCTET_STREAM == <<"application", "octet-stream">>
ContentTypes ==
    {NoHeader, APPLICATION_JSON, TEXT_PLAIN, APPLICATION_WWW_FORM_URLENCODED,
     TEXT_WWW_FORM_URLENCODED}

\* Request bodies: the JSON text {"message":"hi"}, the form text message=hi,
\* and bytes that are neither; "" is the empty body.
JsonBody == "{\"message\":\"hi\"}"
FormBody == "message=hi"
BadBody == "%"
EmptyBytes == ""
Bodies == {JsonBody, FormBody, BadBody}

\* Query strings: none, one that decodes as the handler's type, one that
\* does not.
NoQuery == <<>>
GoodQuery == <<"page=1">>
BadQuery == <<"page=x">>
Queries == {NoQuery, GoodQuery, BadQuery}

\* The application state of App::with_state and the middleware that
\* carries it.
StateValue == "v"
NoState == "none"
StateMw == "W"

\* The body slot of RequestParts: Some(body) with the stream at its start
\* or at its end, or None.
BodySome(data) == [some |-> TRUE, data |-> data, at_end |-> FALSE]
BodyNone == [some |-> FALSE, data |-> EmptyBytes, at_end |-> TRUE]

\* A request that was handed over without RequestCtx::init.
NewParts_no_ctx(content_type, body, query) ==
    [content_type |-> content_type, body |-> BodySome(body), query |-> query,
     state |-> NoState, has_ctx |-> FALSE, request_id |-> <<>>]

\* The request the boundary hands over, RequestCtx::init done: its
\* Content-Type, body and query string, and its extensions.
NewParts(content_type, body, query) ==
    [content_type |-> content_type, body |-> BodySome(body), query |-> query,
     state |-> NoState, has_ctx |-> TRUE, request_id |-> <<>>]

\* hyper::Request::default(): what a whole-request extractor leaves behind.
DefaultParts ==
    [content_type |-> NoHeader, body |-> BodyNone, query |-> NoQuery,
     state |-> NoState, has_ctx |-> FALSE, request_id |-> <<>>]

\* WithState::append_extension with the insert left out.
append_extension_skip(p) == p

\* WithState::append_extension: the state goes into the extensions.
append_extension(p) == [p EXCEPT !.state = StateValue]

\* The built-in middlewares RequestId and AccessLog, and the prefix the
\* RequestId instance of the model was made with (with_prefix).
RequestIdMw == "I"
AccessLogMw == "L"
RequestIdPrefix == "p"

\* fetch_add that hands out the count and leaves it as it is.
fetch_add_keep(c) == [id |-> c, count |-> c]

\* AtomicU64::fetch_add(1, SeqCst): the value before, and the count after.
fetch_add(c) == [id |-> c, count |-> c + 1]

\* format!("{}_{}", prefix, id)
RequestIdValue(prefix, id) == prefix \o "_" \o ToString(id)

\* Request::insert_extension for a RequestIdValue: the value takes the
\* slot of its type in the extension map.
insert_extension(p, value) == [p EXCEPT !.request_id = <<value>>]

\* Request::get_extension::<RequestIdValue>
get_extension(p) ==
    IF p.request_id = <<>> THEN [some |-> FALSE, value |-> ""]
    ELSE [some |-> TRUE, value |-> p.request_id[1]]

\* Request::get_request_id: the value of the extension, or the default of
\* String.
get_request_id(p) == IF get_extension(p).some THEN get_extension(p).value ELSE ""

\* RequestId::handle up to next.run(ctx): the request with its id, and
\* the count after.
RequestId_handle(p, c) ==
    LET f == fetch_add(c) IN
    [parts |-> insert_extension(p, RequestIdValue(RequestIdPrefix, f.id)), count |-> f.count]

\* The middlewares that hand on the response of next.run() as it is.
PassThroughMw == {StateMw, RequestIdMw, AccessLogMw}

\* A middleware that appends its header whichever it is.
returned_response_tagged(m, r) == [r EXCEPT !.headers = Append(@, m)]

\* What a middleware returns once next.run() gave it the response r:
\* WithState, RequestId and AccessLog return r, DefaultHeaders appends its
\* header.
returned_response(m, r) ==
    IF m \in PassThroughMw THEN r ELSE [r EXCEPT !.headers = Append(@, m)]

\* AccessLog::log_basic, before next.run(): the path and method it keeps.
log_basic_frame(router, r) ==
    [router |-> router, id |-> AccessLogMw, method |-> r.method, path |-> r.uri]

\* AccessLog::log_basic, after next.run(): the record of tracing::info!.
log_basic_record(frame, res) ==
    [method |-> frame.method, path |-> frame.path, status |-> res.status]

\* get_state that finds a state whatever the extensions hold.
get_state_any(p) == [some |-> TRUE, value |-> StateValue]

\* WithState::get_state
get_state(p) ==
    IF p.state # NoState THEN [some |-> TRUE, value |-> p.state]
    ELSE [some |-> FALSE, value |-> NoState]

\* get_content_type: the parsed header, application/octet-stream when the
\* header is absent or does not parse.
get_content_type(p) ==
    IF Len(p.content_type) = 2 THEN p.content_type ELSE APPLICATION_OCTET_STREAM

subtype(mime) == mime[2]

\* Rejections are typed values: the rejection type and its variant.
Rejection(type, kind) == [type |-> type, kind |-> kind]
NoRejection == Rejection("", "")
BodyBeenTaken == Rejection("ReadBodyRejection", "BodyBeenTaken")

\* One read of the body, as recorded in `calls`.
ReadCall(fn, ok, bytes) == [call |-> fn, ok |-> ok, result |-> bytes]

\* extracts.rs read_body: take() the body out of its slot, then collect it.
read_body(p) ==
    IF ~p.body.some
    THEN [ok |-> FALSE, bytes |-> EmptyBytes, parts |-> p,
          call |-> ReadCall("read_body", FALSE, "BodyBeenTaken")]
    ELSE LET bytes == IF p.body.at_end THEN EmptyBytes ELSE p.body.data IN
         [ok |-> TRUE, bytes |-> bytes, parts |-> [p EXCEPT !.body = BodyNone],
          call |-> ReadCall("read_body", TRUE, bytes)]

\* LieRequest::read_body: the data of the body left in its slot, read to
\* the end; empty bytes when the slot is None.
LieRequest_read_body(p) ==
    IF p.body.some
    THEN LET bytes == IF p.body.at_end THEN EmptyBytes ELSE p.body.data IN
         [bytes |-> bytes, parts |-> [p EXCEPT !.body.at_end = TRUE],
          call |-> ReadCall("LieRequest::read_body", TRUE, bytes)]
    ELSE [bytes |-> EmptyBytes, parts |-> p,
          call |-> ReadCall("LieRequest::read_body", TRUE, EmptyBytes)]

\* serde_json::from_slice for a struct with the one field message.
json_from_slice(bytes) ==
    IF bytes = JsonBody THEN [ok |-> TRUE, value |-> [message |-> "hi"]]
    ELSE [ok |-> FALSE, value |-> <<>>]

\* serde_urlencoded::from_bytes for the same struct.
form_from_bytes(bytes) ==
    IF bytes = FormBody THEN [ok |-> TRUE, value |-> [message |-> "hi"]]
    ELSE [ok |-> FALSE, value |-> <<>>]

\* serde_urlencoded::from_str for a struct with the one field page: u32.
query_from_str(query) ==
    IF query = GoodQuery THEN [ok |-> TRUE, value |-> [page |-> 1]]
    ELSE [ok |-> FALSE, value |-> <<>>]

\* Default::default() of Query<T>.
QueryDefault == [page |-> 0]

\* str::parse::<u32>: an optional '+', then decimal digits, the number not
\* above u32::MAX (compared digit by digit, leading zeros dropped).
parse_u32(text) ==
    LET Digits == <<"0", "1", "2", "3", "4", "5", "6", "7", "8", "9">>
        U32MaxDigits == <<"4", "2", "9", "4", "9", "6", "7", "2", "9", "5">>
        IsDigit(c) == \E d \in 1..Len(Digits) : Digits[d] = c
        DigitVal(c) == (CHOOSE d \in 1..Len(Digits) : Digits[d] = c) - 1
        RECURSIVE ParseDigits(_, _)
        ParseDigits(str, acc) ==
            IF str = <<>> THEN acc
            ELSE ParseDigits(Tail(str), acc * 10 + DigitVal(Head(str)))
        RECURSIVE StripZeros(_)
        StripZeros(str) ==
            IF Len(str) > 1 /\ Head(str) = "0" THEN StripZeros(Tail(str)) ELSE str
        RECURSIVE DigitsLeq(_, _)
        DigitsLeq(x, y) ==
            IF x = <<>> THEN TRUE
            ELSE IF DigitVal(Head(x)) # DigitVal(Head(y))
                 THEN DigitVal(Head(x)) < DigitVal(Head(y))
            ELSE DigitsLeq(Tail(x), Tail(y))
        InU32(str) ==
            LET z == StripZeros(str) IN
            Len(z) < Len(U32MaxDigits)
                \/ (Len(z) = Len(U32MaxDigits) /\ DigitsLeq(z, U32MaxDigits))
        t == IF starts_with(text, "+") THEN Tail(text) ELSE text
    IN IF t = <<>> \/ \E k \in 1..Len(t) : ~IsDigit(t[k])
       THEN [ok |-> FALSE, value |-> 0]
       ELSE IF ~InU32(t) THEN [ok |-> FALSE, value |-> 0]
       ELSE [ok |-> TRUE, value |-> ParseDigits(t, 0)]

\* The name the handlers of the model bind.
ParamName == <<"i">>

\* get_param with a capture that does not parse reported as missing.
get_param_no_invalid(p, c, name) ==
    IF p.has_ctx /\ name \in DOMAIN c.params /\ parse_u32(c.params[name]).ok
    THEN [ok |-> TRUE, value |-> parse_u32(c.params[name]).value, err |-> ""]
    ELSE [ok |-> FALSE, value |-> 0, err |-> "MissingParam"]

\* LieRequest::get_param::<u32>
get_param(p, c, name) ==
    IF p.has_ctx
    THEN IF name \in DOMAIN c.params
         THEN LET r == parse_u32(c.params[name]) IN
              IF r.ok THEN [ok |-> TRUE, value |-> r.value, err |-> ""]
              ELSE [ok |-> FALSE, value |-> 0, err |-> "InvalidParam"]
         ELSE [ok |-> FALSE, value |-> 0, err |-> "MissingParam"]
    ELSE [ok |-> FALSE, value |-> 0, err |-> "MissingParam"]

\* The result of one from_request call: the value or the rejection, the
\* request it leaves, and the body read it made, if any.
Extracted(value, p, reads) ==
    [ok |-> TRUE, value |-> value, rejection |-> NoRejection, parts |-> p, reads |-> reads]
Rejected(rej, p, reads) ==
    [ok |-> FALSE, value |-> <<>>, rejection |-> rej, parts |-> p, reads |-> reads]

\* params_de::from_params for a struct with the one field i: u32: a key
\* the struct does not have is an unsupported value, i must be there and
\* must parse.
from_params(params) ==
    IF \E n \in DOMAIN params : n # ParamName THEN [ok |-> FALSE, value |-> 0]
    ELSE IF ParamName \notin DOMAIN params THEN [ok |-> FALSE, value |-> 0]
    ELSE parse_u32(params[ParamName])

\* FromRequest for PathParam<T>
PathParam_from_request(p, c) ==
    LET params == IF p.has_ctx THEN c.params ELSE <<>>
        r == from_params(params)
    IN IF r.ok THEN Extracted([i |-> r.value], p, <<>>)
       ELSE Rejected(Rejection("ParamsRejection", "ParamsRejection"), p, <<>>)

\* FromRequest for AppState<T>
AppState_from_request(p) ==
    LET s == get_state(p) IN
    IF s.some THEN Extracted(s.value, p, <<>>)
    ELSE Rejected(Rejection("StateRejection", "StateRejection"), p, <<>>)

\* Query extraction that rejects a request without a query string.
Query_from_request_required(p) ==
    LET r == query_from_str(p.query) IN
    IF r.ok THEN Extracted(r.value, p, <<>>)
    ELSE Rejected(Rejection("QueryRejection", "DecodeFailed"), p, <<>>)

\* FromRequest for Query<T>
Query_from_request(p) ==
    IF p.query # NoQuery
    THEN LET r == query_from_str(p.query) IN
         IF r.ok THEN Extracted(r.value, p, <<>>)
         ELSE Rejected(Rejection("QueryRejection", "DecodeFailed"), p, <<>>)
    ELSE Extracted(QueryDefault, p, <<>>)

\* Json<T> extraction that reads the body first and looks at the
\* Content-Type afterwards.
Json_from_request_read_first(p) ==
    LET b == read_body(p) IN
    IF ~b.ok THEN Rejected(Rejection("JsonRejection", "ReadBody"), b.parts, <<b.call>>)
    ELSE IF subtype(get_content_type(p)) # "json"
    THEN Rejected(Rejection("JsonRejection", "UnexpectedContentType"), b.parts, <<b.call>>)
    ELSE LET r == json_from_slice(b.bytes) IN
         IF r.ok THEN Extracted(r.value, b.parts, <<b.call>>)
         ELSE Rejected(Rejection("JsonRejection", "DecodeFailed"), b.parts, <<b.call>>)

\* FromRequest for Json<T>
Json_from_request(p) ==
    IF subtype(get_content_type(p)) # "json"
    THEN Rejected(Rejection("JsonRejection", "UnexpectedContentType"), p, <<>>)
    ELSE LET b == read_body(p) IN
         IF ~b.ok THEN Rejected(Rejection("JsonRejection", "ReadBody"), b.parts, <<b.call>>)
         ELSE LET r == json_from_slice(b.bytes) IN
              IF r.ok THEN Extracted(r.value, b.parts, <<b.call>>)
              ELSE Rejected(Rejection("JsonRejection", "DecodeFailed"), b.parts, <<b.call>>)

\* FromRequest for Form<T>
Form_from_request(p) ==
    IF subtype(get_content_type(p)) # "x-www-form-urlencoded"
    THEN Rejected(Rejection("FormRejection", "UnexpectedContentType"), p, <<>>)
    ELSE LET b == read_body(p) IN
         IF ~b.ok THEN Rejected(Rejection("FormRejection", "ReadBody"), b.parts, <<b.call>>)
         ELSE LET r == form_from_bytes(b.bytes) IN
              IF r.ok THEN Extracted(r.value, b.parts, <<b.call>>)
              ELSE Rejected(Rejection("FormRejection", "DecodeFailed"), b.parts, <<b.call>>)

\* FromRequest for BytesBody
BytesBody_from_request(p) ==
    LET b == read_body(p) IN
    IF b.ok THEN Extracted([bytes |-> b.bytes, content_type |-> get_content_type(p)],
                           b.parts, <<b.call>>)
    ELSE Rejected(BodyBeenTaken, b.parts, <<b.call>>)

\* FromRequest for Result<R, R::Rejection>: what R::from_request returned,
\* value or rejection, is the value; the extraction itself never fails.
Result_from_request(inner) ==
    Extracted([ok |-> inner.ok, value |-> inner.value, rejection |-> inner.rejection],
              inner.parts, inner.reads)

\* RequestParts extraction that hands out a copy and leaves the request.
RequestParts_from_request_keep(p) == Extracted("RequestParts", p, <<>>)

\* FromRequest for RequestParts: the request is taken whole, an empty one
\* is left in its place.
RequestParts_from_request(p) == Extracted("RequestParts", DefaultParts, <<>>)

\* The rejection of the extractors that need the body in its slot.
BodyTaken == Rejection("BodyBeenTaken", "BodyBeenTaken")

\* FromRequest for crate::Request: the request is taken whole, an empty
\* one is left in its place; rejected when the body slot held None.
Request_from_request(p) ==
    IF p.body.some THEN Extracted("Request", DefaultParts, <<>>)
    ELSE Rejected(BodyTaken, DefaultParts, <<>>)

\* FromRequest for hyper::body::Incoming: the same, the body alone is the
\* value.
Incoming_from_request(p) ==
    IF p.body.some THEN Extracted("Incoming", DefaultParts, <<>>)
    ELSE Rejected(BodyTaken, DefaultParts, <<>>)

\* FromRequest for RemoteAddr: the address RequestCtx holds; never rejected.
RemoteAddr_from_request(p) == Extracted("RemoteAddr", p, <<>>)

\* T::from_request for the parameter types of the model's handlers.
from_request(ext, p, c) ==
    CASE ext = "PathParam" -> PathParam_from_request(p, c)
      [] ext = "RemoteAddr" -> RemoteAddr_from_request(p)
      [] ext = "AppState" -> AppState_from_request(p)
      [] ext = "Query" -> Query_from_request(p)
      [] ext = "Json" -> Json_from_request(p)
      [] ext = "Form" -> Form_from_request(p)
      [] ext = "BytesBody" -> BytesBody_from_request(p)
      [] ext = "Result<Json>" -> Result_from_request(Json_from_request(p))
      [] ext = "Result<Form>" -> Result_from_request(Form_from_request(p))
      [] ext = "Request" -> Request_from_request(p)
      [] ext = "Incoming" -> Incoming_from_request(p)
      [] OTHER -> RequestParts_from_request(p)

\* LieResponse::new(status, body) and LieResponse::with_status(status)
LieResponse_new(status, body) == [status |-> status, body |-> body, headers |-> <<>>]
with_status(status) == [status |-> status, body |-> "", headers |-> <<>>]

\* into_response with every rejection answered as a server error.
RejectionResponse_server_error(rej) ==
    LieResponse_new(INTERNAL_SERVER_ERROR, rej.type)

\* IntoResponse for the rejections.
RejectionResponse(rej) ==
    CASE rej.type = "ParamsRejection" ->
            LieResponse_new(BAD_REQUEST, "path param parse error")
      [] rej.type = "StateRejection" ->
            LieResponse_new(INTERNAL_SERVER_ERROR, "can not extract AppState")
      [] rej.type = "QueryRejection" -> with_status(BAD_REQUEST)
      [] rej.kind \in {"BodyBeenTaken", "ReadBody"} ->
            LieResponse_new(INTERNAL_SERVER_ERROR, "Body has been taken")
      [] OTHER -> with_status(BAD_REQUEST)

\* IntoResponse for crate::Error
ErrorResponse == LieResponse_new(INTERNAL_SERVER_ERROR, "Internal Server Error")

\* What a handler body returns: a value of its type T, or Ok(T) or Err(E) of
\* Result<T, E>, T being &'static str.  E is crate::Error, or a status with
\* a text, (StatusCode, &'static str).
NoReturn == [type |-> "none"]
Value(text) == [type |-> "T", text |-> text]
Ok(text) == [type |-> "Ok", text |-> text]
Err(e) == [type |-> "Err", e |-> e]
Error(kind) == [type |-> "Error", kind |-> kind]
StatusText(status, text) == [type |-> "(StatusCode, &'static str)", status |-> status, text |-> text]

\* IntoResponse for the two error types.
E_into_response(e) ==
    IF e.type = "Error" THEN ErrorResponse
    ELSE [status |-> e.status, body |-> e.text, headers |-> <<"text/plain; charset=utf-8">>]

\* IntoResponse for Result<R, E> with the Err arm left unconverted: no
\* response comes of it.
into_response_ok_only(v) ==
    IF v.type \in {"T", "Ok"} THEN HandlerResponse(v.text) ELSE NoResp

\* IntoResponse for the return value of a handler: T's conversion, and for
\* Result<R, E> the conversion of the arm.
into_response(v) ==
    CASE v.type = "T" -> HandlerResponse(v.text)
      [] v.type = "Ok" -> HandlerResponse(v.text)
      [] OTHER -> E_into_response(v.e)

\* The counter handler of examples/nested.rs.
request_handler == "request_handler"

\* The handlers of the model with parameters, and their parameter types.
ExtractHandlers ==
    {"hx", "hform", "htwice", "hpp", "hstate", "hget", "hread", "hres", "htry"}

HandlerArgs(h) ==
    CASE h = "hx" -> <<"Query", "Json", "AppState">>
      [] h = "hform" -> <<"Form">>
      [] h = "htwice" -> <<"Json", "BytesBody">>
      [] h = "hpp" -> <<"PathParam">>
      [] h = "hstate" -> <<"AppState">>
      [] h = "hget" -> <<"RequestParts">>
      [] h = "hread" -> <<"RequestParts">>
      [] h = "hres" -> <<"Query">>
      [] h = "htry" -> <<"Result<Json>", "Result<Form>", "BytesBody">>
      [] h = request_handler -> <<"RemoteAddr", "AppState">>
      [] h = "hid" -> <<"RequestParts">>
      [] h = "hwq" -> <<"Query", "RequestParts", "AppState">>
      [] h = "hwb" -> <<"RequestParts", "BytesBody">>
      [] h = "hwp" -> <<"Incoming", "PathParam">>
      [] h = "hjr" -> <<"Json", "Request">>
      [] h = "hrw" -> <<"Request", "Incoming">>
      [] h = "hpr" -> <<"PathParam", "AppState", "Request">>
      [] OTHER -> <<>>

\* The body of a handler that was given the extracted values `a` and the
\* request `taken`: hget binds the parameter i and returns an error with
\* `?`, hread reads the body twice, hres returns an error of its own for
\* any page but the first, hid returns the request id it reads, any other
\* handler returns its text.
handler_body(h, a, taken, c) ==
    CASE h = "hget" ->
            LET r == get_param(taken, c, ParamName) IN
            [ret |-> IF r.ok THEN Ok(h) ELSE Err(Error(r.err)),
             held |-> taken,
             calls |-> <<[call |-> "get_param", ok |-> r.ok,
                          result |-> IF r.ok THEN r.value ELSE r.err]>>]
      [] h = "hread" ->
            LET first == LieRequest_read_body(taken)
                second == LieRequest_read_body(first.parts)
            IN [ret |-> Value(h), held |-> second.parts,
                calls |-> <<first.call, second.call>>]
      [] h = "hres" ->
            [ret |-> IF a[1].value = QueryDefault THEN Ok(h)
                     ELSE Err(StatusText(NOT_FOUND, "no such page")),
             held |-> taken, calls |-> <<>>]
      [] h = "hid" -> [ret |-> Value(get_request_id(taken)), held |-> taken, calls |-> <<>>]
      [] OTHER -> [ret |-> Value(h), held |-> taken, calls |-> <<>>]

\* impl_handler! that goes on to the next parameter after a rejection.
after_from_request_ignore_err(ok, k, n) == IF k = n THEN "handle" ELSE "extract"

\* impl_handler!: return on a rejection, else the next parameter, and the
\* handler itself after the last.
after_from_request(ok, k, n) ==
    IF ~ok THEN "return" ELSE IF k = n THEN "handle" ELSE "extract"

NoNext == [endpoint |-> not_found_endpoint, router |-> -1, idx |-> 0]
NoSel == [router |-> -1, path |-> <<>>, method |-> "", endpoint |-> not_found_endpoint,
          params |-> <<>>]
NoReq == [method |-> "", uri |-> <<>>]

-----------------------------------------------------------------------------
\* Set-up: the program builds its routers, then serves

\* The variables of the extraction: the request parts and what the handler
\* made of them.
xvars == <<parts, args, held, ran, calls, ret>>

reqvars == <<req, ctx, callee, next, sel, stack, resp, log, xvars>>

\* The routers and the requests in them.
pvars == <<routers, alive, merge_result, pc, reqvars, nf_set, tvars, gvars>>

\* DefaultHeaders::new: no header configured, no request handled yet.
DefaultHeaders_new ==
    [headers |-> <<>>, pc |-> "config", down |-> NoResp, out |-> NoResp,
     last |-> [name |-> <<>>, value |-> <<>>]]

\* Most connections made to the server.
MaxConns == 2
Conns == 1..MaxConns

\* App::run before its loop, and the connection service before its first
\* call: no listener yet, no connection, the drain not signalled.
App_run_start ==
    [pc |-> "init", listener |-> FALSE, result |-> "",
     conns |-> [c \in Conns |-> "none"], resp |-> [c \in Conns |-> NoResp],
     drain |-> FALSE, svc |-> [c \in Conns |-> "idle"], asked |-> {}, released |-> {}]

\* No find_commprefix call made yet.
NoPrefixCall ==
    [a |-> <<>>, b |-> <<>>, result |-> [panic |-> FALSE, str |-> <<>>], pc |-> "init"]

\* Most Watchers a Shutdown gives out.
MaxWatchers == 4
Holders == 1..MaxWatchers

\* Shutdown::new: the channel with its one sender, no Watcher given out,
\* shutdown() not called.
Shutdown_new ==
    [sender |-> TRUE, watchers |-> [h \in Holders |-> "none"], fut |-> "none"]

\* No register call made yet.
NoCall == [method |-> "", path |-> <<>>, h |-> "", old |-> ""]

\* The parts used on their own, before their first use.
OtherInit ==
    /\ reg_call = NoCall
    /\ dh = DefaultHeaders_new
    /\ srv = App_run_start
    /\ cp = NoPrefixCall
    /\ sd = Shutdown_new

\* The tasks that serve requests (one per connection, tokio::spawn).
Tasks == {1, 2}

\* A handler body that has not started: no guard held, nothing read.
NoLocal == [guard |-> FALSE, value |-> -1]

\* The state of a task that has no request.
IdleTask ==
    [pc |-> "idle", req |-> NoReq, ctx |-> NewCtx, callee |-> -1, next |-> NoNext,
     sel |-> NoSel, stack |-> <<>>, resp |-> NoResp, log |-> <<>>, parts |-> DefaultParts,
     args |-> <<>>, held |-> DefaultParts, ran |-> FALSE, calls |-> <<>>, ret |-> NoReturn,
     local |-> NoLocal]

ReqInit ==
    /\ req = NoReq
    /\ ctx = NewCtx
    /\ callee = -1
    /\ next = NoNext
    /\ sel = NoSel
    /\ stack = <<>>
    /\ resp = NoResp
    /\ log = <<>>
    /\ parts = DefaultParts
    /\ args = <<>>
    /\ held = DefaultParts
    /\ ran = FALSE
    /\ calls = <<>>
    /\ ret = NoReturn
    /\ local = NoLocal
    /\ cur = 1
    /\ others = [t \in Tasks \ {1} |-> IdleTask]
    /\ mutex = 0
    /\ counter = 0
    /\ reports = <<>>
    /\ count = 0
    /\ access_log = <<>>
    /\ OtherInit

\* App::new: the program has built its App and nothing else.
Init ==
    /\ routers = [r \in Routers |-> NewRouter]
    /\ alive = {Root}
    /\ merge_result = "none"
    /\ pc = "setup"
    /\ nf_set = [r \in Routers |-> ""]
    /\ ReqInit

\* App::new and Router::new for two more routers, to be mounted.
InitMount ==
    /\ routers = [r \in Routers |-> NewRouter]
    /\ alive = Routers
    /\ merge_result = "none"
    /\ pc = "setup"
    /\ nf_set = [r \in Routers |-> ""]
    /\ ReqInit

\* The app of the server.rs tests (a GET and a POST route) and a router with
\* one GET route, built and not yet mounted; a third router is still empty.
InitChain ==
    /\ routers = [r \in Routers |->
            CASE r = Root -> register(register(NewRouter, "GET", PatRoot, "h1"),
                                      "POST", PatA, "h2")
              [] r = 2 -> register(NewRouter, "GET", PatA, "h1")
              [] OTHER -> NewRouter]
    /\ alive = Routers
    /\ merge_result = "none"
    /\ pc = "setup"
    /\ nf_set = [r \in Routers |-> ""]
    /\ ReqInit

\* Routes and request paths of the extraction set-up.
PatB == <<"/", "b">>
PatAB == <<"/", "a", "/", "b">>
PatAA == <<"/", "a", "/", "a">>
PatBB == <<"/", "b", "/", "b">>
PatBParam == <<"/", "b", "/", ":", "i">>
PatAAA == <<"/", "a", "/", "a", "/", "a">>
PatAAB == <<"/", "a", "/", "a", "/", "b">>
ExtractPaths ==
    {PatRoot, PatA, PatB, PatAB, PatAA, PatBB, PatAAA,
     <<"/", "1">>, <<"/", "x">>, <<"/", "b", "/", "1">>, <<"/", "b", "/", "a">>,
     <<"/", "a", "/", "1">>, <<"/", "1", "/", "1">>}

\* The root router of the extraction set-up: one route for each handler
\* with parameters, and a not-found handler that asks for the state.
ExtractRoot ==
    LET routes == <<
            <<PatRoot, "hx">>, <<PatA, "hform">>, <<PatB, "htwice">>, <<PatParam, "hpp">>,
            <<PatBB, "hpp">>, <<PatBParam, "hget">>, <<PatAA, "hget">>, <<PatAB, "hread">>,
            <<PatAAA, "hres">>, <<PatAAB, "htry">> >>
        RECURSIVE Reg(_, _)
        Reg(router, k) ==
            IF k > Len(routes) THEN router
            ELSE Reg(register(router, "POST", routes[k][1], routes[k][2]), k + 1)
    IN set_not_found_handler(Reg(NewRouter, 1), "hstate")

\* App::new or App::with_state(v), the routes above registered, and a
\* router with one route whose handler asks for the state, not yet mounted.
InitExtract ==
    /\ \E with_state \in BOOLEAN :
        routers = [r \in Routers |->
            CASE r = Root -> IF with_state THEN middleware(ExtractRoot, StateMw) ELSE ExtractRoot
              [] r = 1 -> register(NewRouter, "POST", PatParam, "hstate")
              [] OTHER -> NewRouter]
    /\ alive = {Root, 1}
    /\ merge_result = "none"
    /\ pc = "setup"
    /\ nf_set = [r \in Routers |-> IF r = Root THEN "hstate" ELSE ""]
    /\ ReqInit

\* The router of the whole-request set-up: handlers that take the request
\* or its body whole, before or after other parameters.
WholeRoot ==
    register(register(register(register(register(register(NewRouter,
        "POST", PatRoot, "hwq"), "POST", PatA, "hwb"), "POST", PatParam, "hwp"),
        "POST", PatB, "hjr"), "POST", PatAA, "hrw"), "POST", PatBParam, "hpr")

\* App::new or App::with_state(v) with these routes.
InitWhole ==
    /\ \E with_state \in BOOLEAN :
        routers = [r \in Routers |->
            IF r = Root
            THEN IF with_state THEN middleware(WholeRoot, StateMw) ELSE WholeRoot
            ELSE NewRouter]
    /\ alive = {Root}
    /\ merge_result = "none"
    /\ pc = "setup"
    /\ nf_set = [r \in Routers |-> ""]
    /\ ReqInit

\* router.register(method, path, handler)
Register(r, method, path, h) ==
    /\ pc = "setup"
    /\ r \in alive
    /\ at_or_default(routers[r].path_router, path).kind # "Sub"
    /\ ~ShapeClash(routers[r].path_router, path)
    /\ routers' = [routers EXCEPT ![r] = register(@, method, path, h)]
    /\ TotalRoutes(routers') <= MaxRoutes
    /\ UNCHANGED <<alive, merge_result, pc, reqvars>>
    /\ UNCHANGED <<nf_set, tvars, gvars, ovars>>

\* router.middleware(m)
Middleware(r, m) ==
    /\ pc = "setup"
    /\ r \in alive
    /\ TotalMw(routers) < MaxMw
    /\ routers' = [routers EXCEPT ![r] = middleware(@, m)]
    /\ UNCHANGED <<alive, merge_result, pc, reqvars>>
    /\ UNCHANGED <<nf_set, tvars, gvars, ovars>>

\* router.set_not_found_handler(handler)
SetNotFoundHandler(r, h) ==
    /\ pc = "setup"
    /\ r \in alive
    /\ routers' = [routers EXCEPT ![r] = set_not_found_handler(@, h)]
    /\ UNCHANGED <<alive, merge_result, pc, reqvars>>
    /\ nf_set' = [nf_set EXCEPT ![r] = h]
    /\ UNCHANGED <<tvars, gvars, ovars>>

\* router.merge(prefix, sub): sub is moved into the call whatever it returns.
Merge(r, prefix, sub) ==
    /\ pc = "setup"
    /\ r \in alive
    /\ sub \in alive \ {r, Root}
    /\ MergeOk(prefix) =>
            ~ShapeClash(routers[r].path_router, prefix \o <<"*">> \o LIEWEB_NESTED_ROUTER)
    /\ routers' = [routers EXCEPT ![r] = merge(@, prefix, sub)]
    /\ merge_result' = IF MergeOk(prefix) THEN "Ok" ELSE "Err"
    /\ alive' = alive \ {sub}
    /\ UNCHANGED <<pc, reqvars>>
    /\ UNCHANGED <<nf_set, tvars, gvars, ovars>>

\* App::run / App::respond: the app is moved behind an Arc and serves.
Serve ==
    /\ pc = "setup"
    /\ pc' = "idle"
    /\ alive' = alive \ {Root}
    /\ UNCHANGED <<routers, merge_result, reqvars>>
    /\ UNCHANGED <<nf_set, tvars, gvars, ovars>>

-----------------------------------------------------------------------------
\* One request through the pipeline

\* The boundary hands over a request: RequestCtx::init, then
\* RouterEndpoint::call on the root router.
ReceiveRequest(method, uri, content_type, body, query) ==
    /\ pc = "idle"
    /\ req' = [method |-> method, uri |-> uri]
    /\ ctx' = NewCtx
    /\ callee' = Root
    /\ next' = NoNext
    /\ sel' = NoSel
    /\ stack' = <<>>
    /\ resp' = NoResp
    /\ log' = <<>>
    /\ parts' = NewParts(content_type, body, query)
    /\ args' = <<>>
    /\ held' = DefaultParts
    /\ ran' = FALSE
    /\ calls' = <<>>
    /\ ret' = NoReturn
    /\ pc' = "route"
    /\ UNCHANGED <<routers, alive, merge_result>>
    /\ UNCHANGED <<nf_set, tvars, gvars, ovars>>

\* A request with no Content-Type, no query string and an empty body.
Receive(method, uri) == ReceiveRequest(method, uri, NoHeader, EmptyBytes, NoQuery)

\* Router::route up to the Next it builds.  route_path(), merge_params()
\* and set_route_path() expect() the RequestCtx in the extensions of the
\* request: without it the task panics.
Route ==
    /\ pc = "route"
    /\ IF parts.has_ctx
       THEN LET path == route_path(ctx, req.uri)
                s == find(routers[callee], path, req.method)
            IN /\ sel' = [router |-> callee, path |-> path, method |-> req.method,
                          endpoint |-> s.endpoint, params |-> s.params]
               /\ ctx' = route_ctx(ctx, s.params)
               /\ next' = [endpoint |-> s.endpoint, router |-> callee, idx |-> 1]
               /\ pc' = "next"
       ELSE /\ pc' = "panic"
            /\ UNCHANGED <<sel, ctx, next>>
    /\ UNCHANGED <<routers, alive, merge_result, req, callee, stack, resp, log, xvars>>
    /\ UNCHANGED <<nf_set, tvars, gvars, ovars>>

\* The remaining middlewares taken from the back (split_last).
split_last(middlewares, idx) == middlewares[Len(middlewares) - idx + 1]

\* split_first on the middlewares a Next still holds: the current one.
split_first(middlewares, idx) == middlewares[idx]

\* Next::run that leaves the whole list in the Next it hands on.
next_middleware_kept(n) == n

\* Next::run: self.next_middleware = next, the list without its first.
next_middleware(n) == [n EXCEPT !.idx = @ + 1]

\* Every middleware runs the Next it is given.
calls_next_always(m) == TRUE

\* Middleware for F: whether the middleware's body runs the Next it is
\* given.  The built-in middlewares all do; the closure ShortMw does not.
calls_next(m) == m # ShortMw

\* Middleware::handle up to next.run(req): the request the middleware
\* forwards.  RewriteMw forwards it as a POST request.
forwarded_request(m, r) == IF m = RewriteMw THEN [r EXCEPT !.method = "POST"] ELSE r

\* Next::run with the endpoint looked up again for the request as it is now.
Next_endpoint_found_again(n) ==
    find(routers[n.router], route_path(ctx, req.uri), req.method).endpoint

\* Next::run with no middleware left: the endpoint the Next was built with.
Next_endpoint(n) == n.endpoint

\* Next::run with a middleware left: the rest of the list goes to the
\* middleware with the request; the built-in style middleware runs it at once.
MiddlewareHandle ==
    /\ pc = "next"
    /\ next.idx <= Len(routers[next.router].middlewares)
    /\ LET m == split_first(routers[next.router].middlewares, next.idx) IN
          /\ calls_next(m)
          /\ log' = Append(log, [ev |-> "middleware", router |-> next.router, id |-> m])
          /\ stack' = Append(stack, IF m = AccessLogMw THEN log_basic_frame(next.router, req)
                                    ELSE [router |-> next.router, id |-> m])
          /\ parts' = IF m = StateMw THEN append_extension(parts)
                      ELSE IF m = RequestIdMw THEN RequestId_handle(parts, count).parts
                      ELSE parts
          /\ count' = IF m = RequestIdMw THEN RequestId_handle(parts, count).count ELSE count
          /\ req' = forwarded_request(m, req)
    /\ next' = next_middleware(next)
    /\ UNCHANGED <<routers, alive, merge_result, pc, ctx, callee, sel, resp,
                   args, held, ran, calls, ret>>
    /\ UNCHANGED <<nf_set, tvars, access_log, ovars>>

\* Next::run with a middleware left that returns a response of its own: the
\* Next it was given is dropped unrun, and the response goes back up.
MiddlewareShort ==
    /\ pc = "next"
    /\ next.idx <= Len(routers[next.router].middlewares)
    /\ LET m == split_first(routers[next.router].middlewares, next.idx) IN
          /\ ~calls_next(m)
          /\ log' = Append(log, [ev |-> "middleware", router |-> next.router, id |-> m])
          /\ resp' = HandlerResponse(m)
    /\ next' = NoNext
    /\ pc' = "return"
    /\ UNCHANGED <<routers, alive, merge_result, req, ctx, callee, sel, stack, xvars>>
    /\ UNCHANGED <<nf_set, tvars, gvars, ovars>>

\* RouterEndpoint::call that routes in the root router again.
RouterEndpoint_call_root(ep) == Root

\* RouterEndpoint::call: self.router.route(req), the router the endpoint holds.
RouterEndpoint_call(ep) == ep.r

\* Next::run with no middleware left: the endpoint is called.  A
\* RouterEndpoint routes in its router; a handler with parameters starts
\* to extract them; any other endpoint answers.
EndpointCall ==
    /\ pc = "next"
    /\ next.idx > Len(routers[next.router].middlewares)
    /\ LET ep == Next_endpoint(next) IN
          /\ log' = Append(log, [ev |-> "endpoint", router |-> next.router,
                                 id |-> IF ep.kind = "handler" THEN ep.h ELSE ep.kind])
          /\ IF ep.kind = "router"
             THEN /\ callee' = RouterEndpoint_call(ep)
                  /\ pc' = "route"
                  /\ resp' = resp
                  /\ ran' = ran
                  /\ ret' = ret
             ELSE IF ep.kind = "handler" /\ HandlerArgs(ep.h) # <<>>
             THEN /\ callee' = callee
                  /\ pc' = "extract"
                  /\ resp' = resp
                  /\ ran' = ran
                  /\ ret' = ret
             ELSE /\ callee' = callee
                  /\ pc' = "return"
                  /\ resp' = EndpointResponse(ep)
                  /\ ran' = (ep.kind = "handler")
                  /\ ret' = IF ep.kind = "handler" THEN Value(ep.h) ELSE ret
    /\ next' = NoNext
    /\ UNCHANGED <<routers, alive, merge_result, req, ctx, sel, stack, parts, args, held, calls>>
    /\ UNCHANGED <<nf_set, tvars, gvars, ovars>>

\* Handler::call of impl_handler!, one parameter: T::from_request on the
\* request; a rejection is the response, converted.
Extract ==
    /\ pc = "extract"
    /\ LET types == HandlerArgs(sel.endpoint.h)
           k == Len(args) + 1
           r == from_request(types[k], parts, ctx)
       IN /\ args' = Append(args, [ext |-> types[k], ok |-> r.ok, value |-> r.value,
                                    rejection |-> r.rejection])
          /\ parts' = r.parts
          /\ held' = IF r.ok /\ types[k] \in {"RequestParts", "Request"} THEN parts ELSE held
          /\ calls' = calls \o r.reads
          /\ resp' = IF r.ok THEN resp ELSE RejectionResponse(r.rejection)
          /\ pc' = after_from_request(r.ok, k, Len(types))
    /\ UNCHANGED <<routers, alive, merge_result, req, ctx, callee, next, sel, stack, log, ran,
                   ret>>
    /\ UNCHANGED <<nf_set, tvars, gvars, ovars>>

\* Handler::call of impl_handler!, after the last parameter: the handler
\* runs with the extracted values and its result is converted.
HandlerBody ==
    /\ pc = "handle"
    /\ sel.endpoint.h # request_handler
    /\ LET b == handler_body(sel.endpoint.h, args, held, ctx) IN
          /\ ret' = b.ret
          /\ resp' = into_response(b.ret)
          /\ held' = b.held
          /\ calls' = calls \o b.calls
    /\ ran' = TRUE
    /\ pc' = "return"
    /\ UNCHANGED <<routers, alive, merge_result, req, ctx, callee, next, sel, stack, log,
                   parts, args>>
    /\ UNCHANGED <<nf_set, tvars, gvars, ovars>>

\* The response handed to the outermost waiting middleware first.
awaiting_outermost(st) == 1

\* The middleware future that awaits the response: the latest to have
\* called next.run().
awaiting(st) == Len(st)

\* next.run() returns into the innermost waiting middleware, which appends
\* its header to the response and returns it.
MiddlewareReturn ==
    /\ pc = "return"
    /\ stack # <<>>
    /\ LET k == awaiting(stack) IN
          /\ resp' = returned_response(stack[k].id, resp)
          /\ access_log' = IF stack[k].id = AccessLogMw
                           THEN Append(access_log, log_basic_record(stack[k], resp))
                           ELSE access_log
          /\ stack' = SubSeq(stack, 1, k - 1) \o SubSeq(stack, k + 1, Len(stack))
    /\ UNCHANGED <<routers, alive, merge_result, pc, req, ctx, callee, next, sel, log, xvars>>
    /\ UNCHANGED <<nf_set, tvars, count, ovars>>

\* The root RouterEndpoint::call returns: the response goes to the boundary.
Respond ==
    /\ pc = "return"
    /\ stack = <<>>
    /\ pc' = "sent"
    /\ UNCHANGED <<routers, alive, merge_result, req, ctx, callee, next, sel, stack, resp, log,
                   xvars>>
    /\ UNCHANGED <<nf_set, tvars, gvars, ovars>>

\* The boundary has written the response; the request is dropped.
DropRequest ==
    /\ pc = "sent"
    /\ pc' = "idle"
    /\ req' = NoReq
    /\ ctx' = NewCtx
    /\ callee' = -1
    /\ sel' = NoSel
    /\ resp' = NoResp
    /\ log' = <<>>
    /\ parts' = DefaultParts
    /\ args' = <<>>
    /\ held' = DefaultParts
    /\ ran' = FALSE
    /\ calls' = <<>>
    /\ ret' = NoReturn
    /\ UNCHANGED <<routers, alive, merge_result, next, stack>>

Drop == DropRequest /\ UNCHANGED <<nf_set, tvars, gvars, ovars>>

Pipeline ==
    \/ \E method \in Methods, uri \in Paths : Receive(method, uri)
    \/ Route
    \/ EndpointCall
    \/ Respond
    \/ Drop

\* Route table of one router: any set-up of routes and not-found handler.
Next ==
    \/ \E method \in Methods, path \in RoutePatterns, h \in Handlers :
            Register(Root, method, path, h)
    \/ \E h \in Handlers : SetNotFoundHandler(Root, h)
    \/ Serve
    \/ Pipeline

Spec == Init /\ [][Next]_vars

\* Mounting: routes on the routers to be mounted, then any merges.
NextMount ==
    \/ \E r \in Routers \ {Root}, path \in SubPatterns : Register(r, "GET", path, "h1")
    \/ \E r \in Routers, prefix \in Prefixes, sub \in Routers : Merge(r, prefix, sub)
    \/ Serve
    \/ Pipeline

SpecMount == InitMount /\ [][NextMount]_vars

\* Middleware chains: any middlewares on the routers, mounted under /a/.
NextChain ==
    \/ \E r \in Routers, m \in MwIds : Middleware(r, m)
    \/ \E r \in Routers, sub \in Routers : Merge(r, PrefixA, sub)
    \/ Serve
    \/ Pipeline
    \/ MiddlewareHandle
    \/ MiddlewareReturn

SpecChain == InitChain /\ [][NextChain]_vars

\* Middleware chains with a short-circuiting middleware among them.
NextShort ==
    \/ \E r \in Routers, m \in ShortMwIds : Middleware(r, m)
    \/ \E r \in Routers, sub \in Routers : Merge(r, PrefixA, sub)
    \/ Serve
    \/ Pipeline
    \/ MiddlewareHandle
    \/ MiddlewareShort
    \/ MiddlewareReturn

SpecShort == InitChain /\ [][NextShort]_vars

\* Middleware chains with a middleware that rewrites the request.
NextRewrite ==
    \/ \E r \in Routers, m \in RewriteMwIds : Middleware(r, m)
    \/ \E r \in Routers, sub \in Routers : Merge(r, PrefixA, sub)
    \/ Serve
    \/ Pipeline
    \/ MiddlewareHandle
    \/ MiddlewareReturn

SpecRewrite == InitChain /\ [][NextRewrite]_vars

\* Extraction: handlers with parameters behind any chain of A; requests
\* with any Content-Type, body and query string of the menus.
NextExtract ==
    \/ \E r \in Routers : Middleware(r, "A")
    \/ Merge(Root, PrefixA, 1)
    \/ Serve
    \/ \E uri \in ExtractPaths, content_type \in ContentTypes, body \in Bodies,
          query \in Queries : ReceiveRequest("POST", uri, content_type, body, query)
    \/ \E content_type \in ContentTypes, body \in Bodies :
            ReceiveRequest("POST", PatAAB, content_type, body, NoQuery)
    \/ \E uri \in ExtractPaths : Receive("GET", uri)
    \/ Route
    \/ MiddlewareHandle
    \/ EndpointCall
    \/ Extract
    \/ HandlerBody
    \/ MiddlewareReturn
    \/ Respond
    \/ Drop

SpecExtract == InitExtract /\ [][NextExtract]_vars

\* Whole-request extraction: requests with any Content-Type, body and
\* query string of the menus to the routes of WholeRoot.
WholePaths == {PatRoot, PatA, PatB, PatAA, <<"/", "1">>, <<"/", "b", "/", "1">>}

NextWhole ==
    \/ Serve
    \/ \E uri \in WholePaths, content_type \in ContentTypes, body \in Bodies,
          query \in Queries : ReceiveRequest("POST", uri, content_type, body, query)
    \/ Route
    \/ MiddlewareHandle
    \/ EndpointCall
    \/ Extract
    \/ HandlerBody
    \/ MiddlewareReturn
    \/ Respond
    \/ Drop

SpecWhole == InitWhole /\ [][NextWhole]_vars

-----------------------------------------------------------------------------
\* Properties of the route table (Spec)

Routed == pc \in {"next", "return", "sent"}
Answered == pc \in {"return", "sent"}

IsStatic(route) ==
    LET m == Metadata(route) IN m.dynamics = 0 /\ m.wildcards = 0

\* C1: a request for a registered (method, static path) pair selects exactly
\* the endpoint registered for the pair, with empty Params, and is answered
\* with that handler's response.
C1_StaticRouteSelected ==
    \A p \in DOMAIN routers[Root].path_router :
        LET route == routers[Root].path_router[p] IN
        (Routed /\ IsStatic(p) /\ req.uri = p /\ req.method \in DOMAIN route.map)
        => /\ sel.endpoint = HandlerEp(route.map[req.method])
           /\ sel.params = <<>>
           /\ Answered => resp = HandlerResponse(route.map[req.method])

\* POST /a is answered by its handler h2 while GET /a has the handler h1.
C1_Witness ==
    /\ pc = "sent"
    /\ req = [method |-> "POST", uri |-> PatA]
    /\ PatA \in DOMAIN routers[Root].path_router
    /\ routers[Root].path_router[PatA].map = [GET |-> "h1", POST |-> "h2"]
    /\ resp.body = "h2"

\* C2: a path that matches registered routes, none of them with the
\* request's method, selects method-not-allowed (405); a path that matches
\* no route selects the router's not-found endpoint (404 unless replaced);
\* method-not-allowed is never selected for an unmatched path, and both
\* selections carry empty Params.
C2_NotAllowedVsNotFound ==
    LET pr == routers[Root].path_router
        M == {p \in DOMAIN pr : MatchRoute(p, req.uri).ok}
    IN Routed =>
        /\ (M # {} /\ \A p \in M : req.method \notin DOMAIN pr[p].map)
            => /\ sel.endpoint = method_not_allowed
               /\ sel.params = <<>>
               /\ Answered => resp.status = METHOD_NOT_ALLOWED
        /\ M = {}
            => /\ sel.endpoint = routers[Root].handle_not_found
               /\ sel.params = <<>>
               /\ (Answered /\ routers[Root].handle_not_found = not_found_endpoint)
                    => resp.status = NOT_FOUND
        /\ sel.endpoint = method_not_allowed => M # {}
        /\ sel.endpoint = not_found_endpoint => M = {}

\* A registered path asked with another method has been answered 405.
C2_Witness ==
    /\ pc = "sent"
    /\ req.uri \in DOMAIN routers[Root].path_router
    /\ req.method \notin DOMAIN routers[Root].path_router[req.uri].map
    /\ sel.endpoint = method_not_allowed
    /\ resp.status = METHOD_NOT_ALLOWED

\* C3: a HEAD request for a path with a GET endpoint and no HEAD endpoint
\* selects the GET endpoint of that path.
C3_HeadFallsBackToGet ==
    \A p \in DOMAIN routers[Root].path_router :
        LET route == routers[Root].path_router[p] IN
        (/\ Routed /\ IsStatic(p) /\ req.uri = p /\ req.method = "HEAD"
         /\ "HEAD" \notin DOMAIN route.map /\ "GET" \in DOMAIN route.map)
        => sel.endpoint = HandlerEp(route.map["GET"])

EditPath(x) == <<"/", "a", "/", x, "/", "b">>

\* C4: with /a/:i/b registered, /a/x/b (x a non-empty segment) matches and
\* Params maps i to exactly x; /a//b and /a/b do not match the route.
C4_NamedParam ==
    LET pr == routers[Root].path_router IN
    (Routed /\ PatEdit \in DOMAIN pr) =>
        /\ \A x \in Letters :
            (req.uri = EditPath(x) /\ req.method \in DOMAIN pr[PatEdit].map)
            => /\ sel.endpoint = HandlerEp(pr[PatEdit].map[req.method])
               /\ sel.params = (<<"i">> :> <<x>>)
        /\ req.uri \in {<<"/", "a", "/", "/", "b">>, <<"/", "a", "/", "b">>}
            => /\ sel.endpoint = routers[Root].handle_not_found
               /\ sel.params = <<>>

\* /a/b/b has been matched by /a/:i/b with i captured as "b".
C4_Witness ==
    /\ pc = "sent"
    /\ req.uri = EditPath("b")
    /\ PatEdit \in DOMAIN routers[Root].path_router
    /\ sel.endpoint.kind = "handler"
    /\ sel.params = (<<"i">> :> <<"b">>)

-----------------------------------------------------------------------------
\* Properties of mounting (SpecMount)

MountPath(prefix) == prefix \o <<"*">> \o LIEWEB_NESTED_ROUTER
Mounts(router) == {q \in DOMAIN router.path_router : router.path_router[q].kind = "Sub"}
\* The prefix a mount route was merged under, with and without its last '/'.
MountPrefix(q) == SubSeq(q, 1, Len(q) - 2)
PrefixNoSlash(q) == SubSeq(q, 1, Len(q) - 3)

\* What mounting promises for GET: the static routes of router r, and under
\* each static mount prefix of r the promises of the mounted router.
RECURSIVE Composed(_)
Composed(r) ==
    LET pr == routers[r].path_router IN
    {[path |-> p, router |-> r, h |-> pr[p].map["GET"]] :
        p \in {q \in DOMAIN pr : /\ pr[q].kind = "Method" /\ IsStatic(q)
                                 /\ "GET" \in DOMAIN pr[q].map}}
    \cup UNION {{[path |-> MountPrefix(q) \o Tail(c.path), router |-> c.router, h |-> c.h] :
                    c \in Composed(pr[q].sub)} :
                q \in {m \in Mounts(routers[r]) : Metadata(m).dynamics = 0}}

\* C5: a request whose path is the mount prefixes followed by a route of
\* the innermost router is answered 200 by that router's endpoint for the
\* route, at any depth of mounting.
C5_MountComposes ==
    \A c \in Composed(Root) :
        (Answered /\ req.method = "GET" /\ req.uri = c.path)
        => /\ sel.router = c.router
           /\ sel.endpoint = HandlerEp(c.h)
           /\ resp.status = OK
           /\ resp.body = c.h

\* GET /a/a/a has gone through two mounts to the route /a of the third router.
C5_Witness ==
    /\ pc = "sent"
    /\ req = [method |-> "GET", uri |-> <<"/", "a", "/", "a", "/", "a">>]
    /\ Len(log) = 3
    /\ sel.router \notin {Root, log[2].router}
    /\ log[2].router # Root
    /\ resp.body = "h1"

SuffixFrom(str, k) == SubSeq(str, k, Len(str))

\* The mount route of sel.router that holds the router just selected.
SelectedMount ==
    CHOOSE q \in Mounts(routers[sel.router]) :
        routers[sel.router].path_router[q].sub = sel.endpoint.r

\* C6 as claimed: when a mounted router is selected the route path becomes
\* the unmatched suffix with its leading separator kept (/new under
\* /v2/posts/); the root routes on the URI path and a mounted router on
\* the route path.
C6_CursorKeepsSeparator ==
    /\ (pc = "route" /\ callee = Root) => route_path(ctx, req.uri) = req.uri
    /\ (Routed /\ sel.router = Root) => sel.path = req.uri
    /\ (pc = "next" /\ sel.router # Root /\ sel.endpoint.kind # "router")
            => ctx.route_path = Some(sel.path)
    /\ (pc = "next" /\ sel.endpoint.kind = "router")
            => LET sp == StripSlash(sel.path) IN
               /\ ctx.route_path.some
               /\ \E k \in 1..Len(sp) :
                    /\ sp[k] = "/"
                    /\ ctx.route_path.path = SuffixFrom(sp, k)
                    /\ MatchRoute(PrefixNoSlash(SelectedMount), SubSeq(sp, 1, k - 1)).ok

\* C6 amended: when a mounted router is selected the route path becomes
\* the rest of the path after the mount prefix, the prefix's last separator
\* not included (new under /v2/posts/); the root routes on the URI path and
\* a mounted router on the route path.
C6_CursorIsSuffix ==
    /\ (pc = "route" /\ callee = Root) => route_path(ctx, req.uri) = req.uri
    /\ (Routed /\ sel.router = Root) => sel.path = req.uri
    /\ (pc = "next" /\ sel.router # Root /\ sel.endpoint.kind # "router")
            => ctx.route_path = Some(sel.path)
    /\ (pc = "next" /\ sel.endpoint.kind = "router")
            => LET sp == StripSlash(sel.path) IN
               /\ ctx.route_path.some
               /\ \E k \in 1..Len(sp) :
                    /\ sp[k] = "/"
                    /\ ctx.route_path.path = SuffixFrom(sp, k + 1)
                    /\ MatchRoute(PrefixNoSlash(SelectedMount), SubSeq(sp, 1, k - 1)).ok

\* The root has selected the router mounted at /a/ for /a/b and written
\* the route path b.
C6_Witness ==
    /\ pc = "next"
    /\ sel.router = Root
    /\ sel.endpoint.kind = "router"
    /\ req.uri = <<"/", "a", "/", "b">>
    /\ MountPath(PrefixA) \in DOMAIN routers[Root].path_router
    /\ ctx.route_path = Some(<<"b">>)

\* C7: the handler of a route of a router mounted at /:i/ sees the mount's
\* capture i together with the capture of its own route, and its own
\* capture where both are named i; at every level the captures of the
\* latest match are the values the context holds for their names.
C7_ParamsMerged ==
    /\ Routed => \A n \in DOMAIN sel.params :
                    n \in DOMAIN ctx.params /\ ctx.params[n] = sel.params[n]
    /\ \A s \in Routers \ {Root}, x \in Letters, y \in Letters :
        LET q == MountPath(PrefixParam) IN
        (/\ Answered
         /\ q \in DOMAIN routers[Root].path_router
         /\ routers[Root].path_router[q] = RouteSub(s)
         /\ req.uri = <<"/", x, "/", y>>
         /\ sel.router = s)
        => /\ <<"i">> \in DOMAIN ctx.params
           /\ DOMAIN sel.params = {<<"j">>}
                => ctx.params[<<"i">>] = <<x>> /\ ctx.params[<<"j">>] = <<y>>
           /\ DOMAIN sel.params = {<<"i">>}
                => ctx.params[<<"i">>] = <<y>>
           /\ DOMAIN sel.params = {}
                => ctx.params[<<"i">>] = <<x>>

\* GET /a/b through the mount /:i/ to the route /:j: the handler sees both.
C7_Witness ==
    /\ pc = "sent"
    /\ req = [method |-> "GET", uri |-> <<"/", "a", "/", "b">>]
    /\ sel.endpoint.kind = "handler"
    /\ <<"i">> \in DOMAIN ctx.params /\ ctx.params[<<"i">>] = <<"a">>
    /\ <<"j">> \in DOMAIN ctx.params /\ ctx.params[<<"j">>] = <<"b">>

\* C8: merge with a prefix that does not both start and end with '/'
\* returns an error and leaves every route table as it was; with a prefix
\* that does it returns Ok and the sub-router is mounted under the prefix.
C8_MergePrefixChecked ==
    [][\A r \in Routers, prefix \in Prefixes, sub \in Routers :
        Merge(r, prefix, sub) =>
            IF starts_with(prefix, "/") /\ ends_with(prefix, "/")
            THEN /\ merge_result' = "Ok"
                 /\ MountPath(prefix) \in DOMAIN routers'[r].path_router
                 /\ routers'[r].path_router[MountPath(prefix)] = RouteSub(sub)
            ELSE /\ merge_result' = "Err"
                 /\ routers' = routers]_vars

\* A merge has failed: its sub-router is gone and mounted nowhere.
C8_Witness ==
    /\ pc = "setup"
    /\ merge_result = "Err"
    /\ \E sub \in Routers \ (alive \cup {Root}) :
        \A r \in Routers : \A q \in Mounts(routers[r]) : routers[r].path_router[q].sub # sub

-----------------------------------------------------------------------------
\* Properties of the middleware chain (SpecChain)

\* Where the part of the log that belongs to the router of entry k starts.
SegStart(k) ==
    LET E == {j \in 1..(k - 1) : log[j].ev = "endpoint"} IN
    IF E = {} THEN 1 ELSE (CHOOSE j \in E : \A i \in E : i <= j) + 1

\* C9: at each router the middlewares are entered in the order of its
\* middleware list, none skipped or repeated, and the endpoint is called
\* after the last of them.
C9_MiddlewareOrder ==
    \A k \in 1..Len(log) :
        LET r == log[k].router
            mws == routers[r].middlewares
            pos == k - SegStart(k) + 1
        IN /\ log[SegStart(k)].router = r
           /\ IF log[k].ev = "middleware"
              THEN pos <= Len(mws) /\ log[k].id = mws[pos]
              ELSE pos = Len(mws) + 1

\* The root chain [A, B]: A entered, then B, then the endpoint.
C9_Witness ==
    /\ pc = "sent"
    /\ routers[Root].middlewares = <<"A", "B">>
    /\ Len(log) = 3
    /\ log[1] = [ev |-> "middleware", router |-> Root, id |-> "A"]
    /\ log[2] = [ev |-> "middleware", router |-> Root, id |-> "B"]
    /\ log[3].ev = "endpoint"

RECURSIVE Reverse(_)
Reverse(q) == IF q = <<>> THEN <<>> ELSE Append(Reverse(Tail(q)), Head(q))

Entered ==
    LET mw == SelectSeq(log, LAMBDA e : e.ev = "middleware") IN
    [k \in 1..Len(mw) |-> mw[k].id]

\* C10: the middlewares append their headers to the endpoint's response
\* innermost first: the appended values are the entered middlewares in
\* reverse order, B then A for the chain [A, B], on every run.
C10_PostProcessingInnermostFirst ==
    pc = "sent" => resp.headers = EndpointResponse(sel.endpoint).headers \o Reverse(Entered)

\* The root chain [A, B] around a handler: B's header, then A's.
C10_Witness ==
    /\ pc = "sent"
    /\ routers[Root].middlewares = <<"A", "B">>
    /\ sel.endpoint.kind = "handler"
    /\ resp.headers = HandlerResponse(sel.endpoint.h).headers \o <<"B", "A">>

-----------------------------------------------------------------------------
\* Properties of short-circuiting and of the single-use Next

\* The middlewares entered so far that ran their Next, in order.
Passed ==
    LET mw == SelectSeq(log, LAMBDA e : e.ev = "middleware" /\ calls_next(e.id)) IN
    [k \in 1..Len(mw) |-> mw[k].id]

\* C11: once a middleware has returned without running next, nothing after
\* it is entered or called for the request, and its response is what goes
\* back through the middlewares before it (each appending its header,
\* innermost first) and out of the router.
C11_ShortCircuit ==
    \A k \in 1..Len(log) :
        (log[k].ev = "middleware" /\ log[k].id = ShortMw)
        => /\ k = Len(log)
           /\ Answered
           /\ resp.status = HandlerResponse(ShortMw).status
           /\ resp.body = HandlerResponse(ShortMw).body
           /\ resp.headers = HandlerResponse(ShortMw).headers
                    \o Reverse(SubSeq(Passed, Len(stack) + 1, Len(Passed)))
           /\ pc = "sent" => stack = <<>>

\* The root chain [A, S]: A entered, S answered, A appended its header and
\* no endpoint was called.
C11_Witness ==
    /\ pc = "sent"
    /\ routers[Root].middlewares = <<"A", ShortMw>>
    /\ Len(log) = 2
    /\ log[2] = [ev |-> "middleware", router |-> Root, id |-> ShortMw]
    /\ resp.body = ShortMw
    /\ resp.headers = HandlerResponse(ShortMw).headers \o <<"A">>

Count(ev, r) == Cardinality({k \in 1..Len(log) : log[k].ev = ev /\ log[k].router = r})

\* C12: within one request no router's chain enters more middlewares than
\* its list holds, a router's endpoint is called at most once, and at most
\* one endpoint that is not a router is called.
C12_NextSingleUse ==
    /\ \A r \in Routers :
        /\ Count("middleware", r) <= Len(routers[r].middlewares)
        /\ Count("endpoint", r) <= 1
    /\ Cardinality({k \in 1..Len(log) : log[k].ev = "endpoint" /\ log[k].id # "router"}) <= 1
    /\ (pc = "next" /\ next # NoNext) =>
            next.idx = Count("middleware", next.router) + 1

\* The root chain [A, A] has been run to the end: two entries, one endpoint.
C12_Witness ==
    /\ pc = "sent"
    /\ routers[Root].middlewares = <<"A", "A">>
    /\ Count("middleware", Root) = 2
    /\ Count("endpoint", Root) = 1

-----------------------------------------------------------------------------
\* Properties of extraction (SpecExtract)

\* The parameter types of the handler the request was routed to.
Types == IF sel.endpoint.kind = "handler" THEN HandlerArgs(sel.endpoint.h) ELSE <<>>
AllExtracted == Len(args) = Len(Types) /\ \A k \in 1..Len(args) : args[k].ok
LastRejected == args # <<>> /\ ~args[Len(args)].ok

\* C13: the parameters of a handler are extracted in their order, one
\* from_request each; after the first rejection no further parameter is
\* extracted, the handler body is not run and the response is the
\* rejection's; the body runs only after every parameter was extracted, and
\* then its converted return value is the response.
C13_ExtractionInOrder ==
    /\ Len(args) <= Len(Types)
    /\ \A k \in 1..Len(args) : args[k].ext = Types[k]
    /\ \A k \in 1..(Len(args) - 1) : args[k].ok
    /\ (ran /\ Types # <<>>) => AllExtracted
    /\ LastRejected
        => /\ Answered
           /\ ~ran
           /\ resp.status = RejectionResponse(args[Len(args)].rejection).status
           /\ resp.body = RejectionResponse(args[Len(args)].rejection).body
    /\ (Answered /\ Types # <<>> /\ AllExtracted)
        => /\ ran
           /\ resp.status = into_response(ret).status
           /\ resp.body = into_response(ret).body
           /\ sel.endpoint.h \notin {"hget", "hres"}
                => resp.status = OK /\ resp.body = sel.endpoint.h

\* The handler hx(Query, Json, AppState): the query was extracted, the Json
\* body was rejected, and neither AppState nor the handler was reached.
C13_Witness ==
    /\ pc = "sent"
    /\ sel.endpoint = HandlerEp("hx")
    /\ Len(args) = 2
    /\ args[1].ok /\ args[1].ext = "Query"
    /\ ~args[2].ok /\ args[2].ext = "Json"
    /\ ~ran
    /\ resp.status = BAD_REQUEST

\* The body reads of the request so far, by extractors and by handlers.
BodyReads ==
    SelectSeq(calls, LAMBDA e : e.call \in {"read_body", "LieRequest::read_body"})

\* C14: the first read of a request's body takes the body, and every later
\* read of it, by an extractor or by read_body, read_json or read_form,
\* fails as body-already-taken and yields no value, empty or not.
C14_BodyReadOnce ==
    \A k \in 1..Len(BodyReads) :
        IF k = 1
        THEN BodyReads[k].ok /\ BodyReads[k].result \in Bodies
        ELSE ~BodyReads[k].ok /\ BodyReads[k].result = "BodyBeenTaken"

\* Whether the state middleware was entered for the request.
StateInjected == \E k \in 1..Len(log) : log[k].ev = "middleware" /\ log[k].id = StateMw

\* C15: when no state middleware ran for the request, an AppState
\* parameter is rejected with the missing-state rejection: the handler body
\* is not run, the response is the rejection's 500, and the pipeline goes
\* on to the next request.
C15_MissingStateIs500 ==
    /\ \A k \in 1..Len(args) :
        (args[k].ext = "AppState" /\ ~StateInjected)
        => /\ ~args[k].ok
           /\ args[k].rejection = Rejection("StateRejection", "StateRejection")
           /\ k = Len(args)
           /\ ~ran
           /\ Answered
           /\ resp.status = INTERNAL_SERVER_ERROR
           /\ resp.body = "can not extract AppState"
    /\ pc \in {"setup", "idle", "route", "next", "extract", "handle", "return", "sent"}
    /\ pc = "return" => ENABLED (MiddlewareReturn \/ Respond)
    /\ pc = "sent" => ENABLED Drop
    /\ pc = "idle" => ENABLED ReceiveRequest("POST", PatRoot, NoHeader, JsonBody, NoQuery)

\* The handler hstate(AppState) of the mounted router, reached through an
\* app without state: the request was answered 500.
C15_Witness ==
    /\ pc = "sent"
    /\ StateMw \notin {routers[Root].middlewares[k] : k \in 1..Len(routers[Root].middlewares)}
    /\ sel.router = 1
    /\ sel.endpoint = HandlerEp("hstate")
    /\ args = <<[ext |-> "AppState", ok |-> FALSE, value |-> <<>>,
                 rejection |-> Rejection("StateRejection", "StateRejection")]>>
    /\ ~ran
    /\ resp.status = INTERNAL_SERVER_ERROR

\* Whether the app was built by App::with_state: the state middleware is
\* installed by nothing else.
WithStateApp ==
    \E k \in 1..Len(routers[Root].middlewares) : routers[Root].middlewares[k] = StateMw

\* Whether one of the first k - 1 parameters took the request whole.
TakenBefore(k) == \E j \in 1..(k - 1) : args[j].ext = "RequestParts"

TypedBodyChecked(k, accepts, body) ==
    /\ args[k].ok => /\ accepts
                     /\ calls[1].result = body
                     /\ args[k].value = [message |-> "hi"]
    /\ ~accepts
        => /\ ~args[k].ok
           /\ args[k].rejection.kind = "UnexpectedContentType"
           /\ BodyReads = <<>>
           /\ Answered
           /\ resp.status = BAD_REQUEST

\* C17: Json<T> is extracted only from a request whose Content-Type has the
\* subtype json, Form<T> only from one whose Content-Type is
\* application/x-www-form-urlencoded; the same bytes under any other
\* Content-Type or none are rejected as unexpected content type with a 400
\* and are not decoded.
C17_ContentTypeChecked ==
    \A k \in 1..Len(args) :
        /\ args[k].ext = "Json"
            => TypedBodyChecked(k, Len(parts.content_type) = 2 /\ parts.content_type[2] = "json",
                                JsonBody)
        /\ args[k].ext = "Form"
            => TypedBodyChecked(k, parts.content_type = APPLICATION_WWW_FORM_URLENCODED,
                                FormBody)

\* The rejection type of each parameter type.
RejectionType(ext) ==
    CASE ext = "PathParam" -> "ParamsRejection"
      [] ext = "AppState" -> "StateRejection"
      [] ext = "Query" -> "QueryRejection"
      [] ext = "Json" -> "JsonRejection"
      [] ext = "Form" -> "FormRejection"
      [] OTHER -> "ReadBodyRejection"

\* Whether the rejection is one the client's request caused: a path
\* parameter missing or invalid, a query string or body that does not
\* decode, a wrong Content-Type.
ClientCaused(rej) ==
    \/ rej.type \in {"ParamsRejection", "QueryRejection"}
    \/ rej.kind \in {"UnexpectedContentType", "DecodeFailed"}

\* C18: a rejection the client's request caused is answered with a 4xx
\* status, the missing-state rejection with 500; each parameter type has a
\* rejection type of its own, and within one a wrong Content-Type and a
\* body that does not decode are different variants.
C18_RejectionStatus ==
    \A k \in 1..Len(args) :
        ~args[k].ok =>
            LET rej == args[k].rejection IN
            /\ rej.type = RejectionType(args[k].ext)
            /\ rej # NoRejection
            /\ ClientCaused(rej) => resp.status >= 400 /\ resp.status < 500
            /\ rej.type = "StateRejection" => resp.status = INTERNAL_SERVER_ERROR
            /\ rej.type = "ParamsRejection"
                => ParamName \notin DOMAIN ctx.params \/ ~parse_u32(ctx.params[ParamName]).ok
            /\ rej.type = "QueryRejection" => parts.query = BadQuery
            /\ rej.kind = "UnexpectedContentType"
                => subtype(get_content_type(parts))
                        # (IF args[k].ext = "Json" THEN "json" ELSE "x-www-form-urlencoded")
            /\ rej.kind = "DecodeFailed" /\ rej.type # "QueryRejection"
                => calls # <<>> /\ calls[1].result # (IF args[k].ext = "Json" THEN JsonBody ELSE FormBody)

\* POST /x to the handler hpp(PathParam): x is no u32, and the answer is
\* the 400 of ParamsRejection.
C18_Witness ==
    /\ pc = "sent"
    /\ req.uri = <<"/", "x">>
    /\ sel.endpoint = HandlerEp("hpp")
    /\ args = <<[ext |-> "PathParam", ok |-> FALSE, value |-> <<>>,
                 rejection |-> Rejection("ParamsRejection", "ParamsRejection")]>>
    /\ resp.status = BAD_REQUEST
    /\ resp.body = "path param parse error"

C20_QueryDefault ==
    \A k \in 1..Len(args) :
        args[k].ext = "Query" =>
            /\ parts.query = NoQuery => args[k].ok /\ args[k].value = QueryDefault
            /\ parts.query = GoodQuery => args[k].ok /\ args[k].value = [page |-> 1]
            /\ parts.query = BadQuery
                => /\ ~args[k].ok
                   /\ args[k].rejection = Rejection("QueryRejection", "DecodeFailed")
                   /\ k = Len(args)
                   /\ Answered
                   /\ resp.status = BAD_REQUEST
            /\ k = Len(args) => /\ BodyReads = <<>>
                                /\ parts.body.some
                                /\ ~parts.body.at_end

\* POST / without a query string to hx(Query, Json, AppState): the Query
\* parameter is the default value, and the handler ran.
C20_Witness ==
    /\ pc = "sent"
    /\ sel.endpoint = HandlerEp("hx")
    /\ parts.query = NoQuery
    /\ Len(args) = 3
    /\ args[1] = [ext |-> "Query", ok |-> TRUE, value |-> QueryDefault, rejection |-> NoRejection]
    /\ ran

-----------------------------------------------------------------------------
\* Properties of the handler's return value (SpecExtract)

\* C21: a handler that returned Ok(t) is answered with t's response, one
\* that returned Err(e) with e's response, and an Err of crate::Error with
\* the 500 "Internal Server Error"; whichever arm it is, the endpoint has
\* returned a response and the pipeline goes on with it.
C21_ResultIsResponse ==
    ran =>
        LET conv == into_response(ret) IN
        /\ ret # NoReturn
        /\ Answered
        /\ resp.status \in 100..599
        /\ ret.type \in {"T", "Ok"}
            => /\ resp.status = OK
               /\ resp.body = ret.text
        /\ (ret.type = "Err" /\ ret.e.type = "Error")
            => /\ resp.status = INTERNAL_SERVER_ERROR
               /\ resp.body = "Internal Server Error"
        /\ (ret.type = "Err" /\ ret.e.type # "Error")
            => /\ resp.status = ret.e.status
               /\ resp.body = ret.e.text
        /\ SubSeq(resp.headers, 1, Len(conv.headers)) = conv.headers
        /\ pc = "return" => ENABLED (MiddlewareReturn \/ Respond)

\* POST /b/a to hget, which returns Result<&str, Error>: get_param failed,
\* the handler returned the Err, and the answer is the generic 500.
C21_Witness ==
    /\ pc = "sent"
    /\ sel.endpoint = HandlerEp("hget")
    /\ ran
    /\ ret = Err(Error("InvalidParam"))
    /\ resp.status = INTERNAL_SERVER_ERROR
    /\ resp.body = "Internal Server Error"

-----------------------------------------------------------------------------
\* Properties of the whole pipeline (SpecExtract)

\* The positions of a task that serves a request.
InFlight == pc \in {"route", "next", "extract", "handle", "return"}

\* A bound on the steps the task has left: the entries the log can still
\* take while the request goes down, the parameters still to extract, the
\* middlewares still waiting for their response.
Remaining ==
    LET MaxLog == MaxMw + Cardinality(Routers)
        MaxArgs == 3
    IN CASE pc = "route" -> 2 * (MaxLog - Len(log)) + MaxArgs + MaxMw + 4
         [] pc = "next" -> 2 * (MaxLog - Len(log)) + MaxArgs + MaxMw + 3
         [] pc = "extract" -> (MaxArgs - Len(args)) + MaxMw + 3
         [] pc = "handle" -> MaxMw + 2
         [] pc = "return" -> Len(stack) + 1
         [] OTHER -> 0

\* No step of the request's task panics or is stuck, and what is sent is a
\* response with the status of the path the request took.
EveryPathAnswers ==
    /\ pc \in {"setup", "idle", "route", "next", "extract", "handle", "return", "sent"}
    /\ pc = "route" => parts.has_ctx
    /\ pc = "next" => ENABLED (MiddlewareHandle \/ EndpointCall)
    /\ pc = "extract" => ENABLED Extract
    /\ pc = "handle" => ENABLED HandlerBody
    /\ pc = "return" => ENABLED (MiddlewareReturn \/ Respond)
    /\ InFlight => Remaining > 0
    /\ pc = "sent" =>
        /\ ENABLED Drop
        /\ stack = <<>>
        /\ resp.status \in 100..599
        /\ sel.endpoint = not_found_endpoint => resp.status = NOT_FOUND
        /\ sel.endpoint = method_not_allowed => resp.status = METHOD_NOT_ALLOWED
        /\ LastRejected => resp.status = RejectionResponse(args[Len(args)].rejection).status
        /\ ret.type = "Err" => resp.status = E_into_response(ret.e).status

\* C22: every request handed to the router is answered.  No step of its
\* task panics or is stuck, whether the request is not found, not allowed,
\* rejected by an extractor or failed by its handler; every step brings the
\* task nearer to the hand-over of its response, which has the status of
\* that outcome; and after the hand-over nothing more comes of the request.
C22_AlwaysOneResponse ==
    /\ []EveryPathAnswers
    /\ [][InFlight => Remaining' < Remaining]_vars
    /\ [][pc = "sent" => pc' = "idle" /\ resp' = NoResp]_vars

\* GET /a, a path with a POST route only, behind the root's middleware: the
\* answer is the 405 of method_not_allowed, with the middleware's header.
C22_Witness ==
    /\ pc = "sent"
    /\ req = [method |-> "GET", uri |-> PatA]
    /\ sel.endpoint = method_not_allowed
    /\ resp.status = METHOD_NOT_ALLOWED
    /\ resp.headers = <<"A">>

-----------------------------------------------------------------------------
\* Properties of the request's lifecycle (SpecRewrite)

\* The phase of the request: 1 Received, 2 Routing (the root has made its
\* selection), 3 Pipeline, 4 Handling, 5 Responding, 6 Sent; 0 when no request
\* is in flight.
Phase ==
    CASE pc = "route" /\ sel = NoSel -> 1
      [] pc = "next" /\ log = <<>> -> 2
      [] pc \in {"route", "next"} -> 3
      [] pc \in {"extract", "handle"} -> 4
      [] pc = "return" -> 5
      [] pc = "sent" -> 6
      [] OTHER -> 0

EndpointId(ep) == IF ep.kind = "handler" THEN ep.h ELSE ep.kind

\* Whether this step enters a middleware / calls an endpoint.
Enters(ev) == Len(log') = Len(log) + 1 /\ log'[Len(log')].ev = ev

\* C23: the phases of a request only go forward.  At each router the
\* selection is made before a middleware of that router is entered, a
\* middleware leaves the selection as it is, whatever it does to the
\* request, and the endpoint called is the one selected for the request as it
\* was when routed.  An endpoint that is no router is called only when every
\* middleware of every router on the way has been entered and has forwarded.
C23_PhasesInOrder ==
    /\ [][pc \notin {"setup", "idle", "sent"} => Phase' >= Phase]_vars
    /\ [](Phase >= 2 => sel # NoSel)
    /\ [](pc = "next" =>
            /\ sel.router = next.router
            /\ next.endpoint = sel.endpoint
            /\ sel.endpoint = find(routers[sel.router], sel.path, sel.method).endpoint)
    /\ [][Enters("middleware") =>
            /\ sel' = sel
            /\ sel.router = log'[Len(log')].router]_vars
    /\ [][Enters("endpoint") =>
            /\ sel' = sel
            /\ log'[Len(log')].router = sel.router
            /\ log'[Len(log')].id = EndpointId(sel.endpoint)
            /\ log'[Len(log')].id # "router" =>
                /\ \A k \in 1..Len(log) :
                      Count("middleware", log[k].router)
                            = Len(routers[log[k].router].middlewares)
                /\ [k \in 1..Len(stack) |-> stack[k].id] = Entered]_vars

\* GET / behind the root chain [R]: the root selected its GET endpoint h1,
\* R forwarded the request as POST, and h1 was called all the same.
C23_Witness ==
    /\ pc = "sent"
    /\ routers[Root].middlewares = <<RewriteMw>>
    /\ req = [method |-> "POST", uri |-> PatRoot]
    /\ sel.method = "GET"
    /\ sel.endpoint = HandlerEp("h1")
    /\ log = <<[ev |-> "middleware", router |-> Root, id |-> RewriteMw],
               [ev |-> "endpoint", router |-> Root, id |-> "h1"]>>
    /\ resp.body = "h1"

-----------------------------------------------------------------------------
\* Properties of the typed-body extractors and the body slot (SpecExtract)

\* What parameter k made of the request: for a Result<R, _> parameter the
\* outcome of R's extraction, for any other the extraction's own.
Outcome(k) == IF args[k].ext \in {"Result<Json>", "Result<Form>"} THEN args[k].value ELSE args[k]
IsJson(k) == args[k].ext \in {"Json", "Result<Json>"}
IsForm(k) == args[k].ext \in {"Form", "Result<Form>"}
\* Whether parameter k went to the body slot for the body.
WentForBody(k) ==
    \/ args[k].ext = "BytesBody"
    \/ (IsJson(k) \/ IsForm(k)) /\ Outcome(k).rejection.kind # "UnexpectedContentType"

\* C27: a Json or Form parameter rejected as unexpected content type has
\* not read the body: the slot is as the parameters before it left it, and
\* a body parameter after it gets the body.  One rejected as decode failure
\* has taken the body out of its slot, and a body parameter after it is
\* rejected as body taken.  The first rejection means the Content-Type
\* does not fit, the second that it fits and the bytes do not decode.
C27_ContentTypeBeforeBody ==
    (sel.endpoint.kind = "handler" /\ sel.endpoint.h \in {"hx", "hform", "htwice", "htry"}) =>
        /\ Len(BodyReads) = Cardinality({k \in 1..Len(args) : WentForBody(k)})
        /\ parts.body.some <=> BodyReads = <<>>
        /\ parts.body.some => ~parts.body.at_end /\ parts.body.data \in Bodies
        /\ \A k \in 1..Len(args) :
            LET o == Outcome(k)
                before == \E j \in 1..(k - 1) : WentForBody(j)
                fits == subtype(get_content_type(parts))
                            = (IF IsJson(k) THEN "json" ELSE "x-www-form-urlencoded")
            IN /\ (IsJson(k) \/ IsForm(k)) =>
                    /\ o.rejection.kind = "UnexpectedContentType" <=> ~fits
                    /\ o.rejection.kind = "DecodeFailed"
                        => /\ fits
                           /\ ~before
                           /\ ~parts.body.some
                           /\ BodyReads[1].ok
                           /\ BodyReads[1].result # (IF IsJson(k) THEN JsonBody ELSE FormBody)
                    /\ o.rejection.kind = "ReadBody" <=> (fits /\ before)
               /\ args[k].ext = "BytesBody" =>
                    IF before
                    THEN ~args[k].ok /\ args[k].rejection = BodyBeenTaken
                    ELSE /\ args[k].ok
                         /\ args[k].value.bytes \in Bodies
                         /\ BodyReads = <<ReadCall("read_body", TRUE, args[k].value.bytes)>>

\* POST /a/a/b with Content-Type text/plain and the JSON text as body to
\* htry(Result<Json>, Result<Form>, BytesBody): both typed parameters were
\* rejected for the Content-Type, and BytesBody got the body.
C27_Witness ==
    /\ pc = "sent"
    /\ sel.endpoint = HandlerEp("htry")
    /\ Len(args) = 3
    /\ args[1].value.rejection = Rejection("JsonRejection", "UnexpectedContentType")
    /\ args[2].value.rejection = Rejection("FormRejection", "UnexpectedContentType")
    /\ args[3].ok
    /\ args[3].value.bytes = JsonBody
    /\ ran
    /\ resp.status = OK

\* POST /a/a/b with Content-Type application/json and a body that is no
\* JSON: the Json parameter failed to decode, and BytesBody found the body
\* taken.
C27_WitnessTaken ==
    /\ pc = "sent"
    /\ sel.endpoint = HandlerEp("htry")
    /\ Len(args) = 3
    /\ args[1].value.rejection = Rejection("JsonRejection", "DecodeFailed")
    /\ ~args[3].ok
    /\ args[3].rejection = BodyBeenTaken
    /\ resp.status = INTERNAL_SERVER_ERROR

-----------------------------------------------------------------------------
\* Properties of the middleware chains of mounted routers (SpecChain)

\* The middlewares entered so far as frames, in the order they were entered.
EnteredFrames ==
    LET mw == SelectSeq(log, LAMBDA e : e.ev = "middleware") IN
    [k \in 1..Len(mw) |-> [router |-> mw[k].router, id |-> mw[k].id]]

\* The ids of the log entries of router r before entry k.
EnteredOf(r, k) ==
    LET mw == SelectSeq(SubSeq(log, 1, k - 1), LAMBDA e : e.router = r) IN
    [j \in 1..Len(mw) |-> mw[j].id]

MountedIn(r, sub) == \E q \in Mounts(routers[r]) : routers[r].path_router[q].sub = sub

\* C28: the request starts in the root's chain; a router's chain is entered
\* only after the endpoint of the router it is mounted in was called as a
\* router, and by then every middleware of that router has been entered, in
\* order; a router's endpoint is called after all its middlewares.  The
\* middlewares that wait for the response are the first entered ones, so
\* the response passes the mounted router's middlewares before those of the
\* router it is mounted in; at the end every entered middleware has post-
\* processed it, whatever endpoint answered, not-found and method-not-
\* allowed included.
C28_ParentChainAroundSub ==
    /\ \A k \in 1..Len(log) :
        /\ k = 1 => log[k].router = Root
        /\ k > 1 =>
              IF log[k - 1].ev = "endpoint"
              THEN /\ log[k - 1].id = "router"
                   /\ MountedIn(log[k - 1].router, log[k].router)
                   /\ \A j \in 1..(k - 1) : log[j].router # log[k].router
              ELSE log[k].router = log[k - 1].router
        /\ log[k].ev = "endpoint"
              => EnteredOf(log[k].router, k) = routers[log[k].router].middlewares
    /\ Len(stack) <= Len(EnteredFrames)
    /\ stack = SubSeq(EnteredFrames, 1, Len(stack))
    /\ pc \in {"route", "next"} => stack = EnteredFrames
    /\ pc \in {"return", "sent"} =>
          /\ log # <<>>
          /\ log[Len(log)].ev = "endpoint"
          /\ log[Len(log)].id # "router"
          /\ resp.status = EndpointResponse(sel.endpoint).status
          /\ resp.headers = EndpointResponse(sel.endpoint).headers
                \o Reverse([k \in 1..(Len(EnteredFrames) - Len(stack))
                                |-> EnteredFrames[Len(stack) + k].id])
    /\ pc = "sent" =>
          /\ stack = <<>>
          /\ \A k \in 1..Len(routers[Root].middlewares) :
                log[k] = [ev |-> "middleware", router |-> Root,
                          id |-> routers[Root].middlewares[k]]

\* Root with chain [A] and a mounted router with chain [B]: A, then the
\* root's router endpoint, then B, then the handler; the response carries
\* B's header, then A's.
C28_Witness ==
    /\ pc = "sent"
    /\ Len(log) = 4
    /\ log[1] = [ev |-> "middleware", router |-> Root, id |-> "A"]
    /\ log[2] = [ev |-> "endpoint", router |-> Root, id |-> "router"]
    /\ log[3].ev = "middleware" /\ log[3].router # Root /\ log[3].id = "B"
    /\ log[4].ev = "endpoint" /\ log[4].router = log[3].router /\ log[4].id = "h1"
    /\ resp.headers = HandlerResponse("h1").headers \o <<"B", "A">>

\* The root's chain around a request that the root answers with not-found
\* although a router with a chain of its own is mounted: the mounted
\* router's middleware is not entered.
C28_WitnessNotFound ==
    /\ pc = "sent"
    /\ sel.router = Root
    /\ sel.endpoint.kind = "not_found"
    /\ routers[Root].middlewares = <<"A">>
    /\ \E r \in Routers \ {Root} : MountedIn(Root, r) /\ routers[r].middlewares = <<"B">>
    /\ Len(log) = 2
    /\ resp.status = NOT_FOUND
    /\ resp.headers = <<"A">>

-----------------------------------------------------------------------------
\* Routes of the root that overlap each other and its mounts (SpecPrefer)

PatAParam == <<"/", "a", "/", ":", "i">>
PatTwoParams == <<"/", ":", "i", "/", ":", "j">>
PreferPatterns == {PatAA, PatAParam, PatTwoParams}

\* GET routes on the root among the overlapping patterns, and routers
\* mounted on it under /a/ and /:i/.
NextPrefer ==
    \/ \E path \in PreferPatterns, h \in Handlers : Register(Root, "GET", path, h)
    \/ \E prefix \in {PrefixA, PrefixParam}, sub \in Routers : Merge(Root, prefix, sub)
    \/ Serve
    \/ Pipeline

SpecPrefer == InitMount /\ [][NextPrefer]_vars

\* The routes of the root that match the path the root selected for.
Matching(kind) ==
    {p \in DOMAIN routers[Root].path_router :
        routers[Root].path_router[p].kind = kind /\ MatchRoute(p, sel.path).ok}
\* The endpoint find() hands back when it has picked the Method route p.
MethodEndpoint(p) ==
    LET map == routers[Root].path_router[p].map IN
    IF sel.method \in DOMAIN map THEN HandlerEp(map[sel.method]) ELSE method_not_allowed
RootSelected == sel # NoSel /\ sel.router = Root

C29_WitnessStatic ==
    /\ pc = "next"
    /\ RootSelected
    /\ sel.method = "GET"
    /\ Matching("Method") = {PatAA, PatAParam}
    /\ Matching("Sub") # {}
    /\ routers[Root].path_router[PatAParam].map["GET"] = "h2"
    /\ sel.endpoint = HandlerEp("h1")

-----------------------------------------------------------------------------
\* Not-found handlers of the root and of mounted routers (SpecNotFound)

\* The routers of InitChain, not-found handlers set on any of them, mounted
\* under /a/.
NextNotFound ==
    \/ \E r \in Routers, h \in Handlers : SetNotFoundHandler(r, h)
    \/ \E r \in Routers, sub \in Routers : Merge(r, PrefixA, sub)
    \/ Serve
    \/ Pipeline

SpecNotFound == InitChain /\ [][NextNotFound]_vars

\* No route and no mount of the router that selected matches the path it
\* selected for.
NothingMatches ==
    \A p \in DOMAIN routers[sel.router].path_router : ~MatchRoute(p, sel.path).ok

\* The endpoint router r was told to answer unmatched requests with.
Configured(r) == IF nf_set[r] = "" THEN not_found_endpoint ELSE HandlerEp(nf_set[r])

\* C30: a router answers a request that matches none of its routes and
\* mounts with its own not-found endpoint and empty Params, the root as
\* well as a mounted router for the rest of the path it was delegated; the
\* endpoint is the handler of the router's latest set_not_found_handler call,
\* or the default, which answers 404 with no body.
C30_NotFoundPerRouter ==
    /\ \A r \in Routers : routers[r].handle_not_found = Configured(r)
    /\ (sel # NoSel /\ NothingMatches) =>
          /\ sel.endpoint = Configured(sel.router)
          /\ sel.params = <<>>
          /\ sel.router = Root => ctx.params = <<>>
          /\ pc \in {"return", "sent"} =>
                /\ log[Len(log)].router = sel.router
                /\ resp.status = (IF nf_set[sel.router] = "" THEN NOT_FOUND ELSE OK)
                /\ resp.body = nf_set[sel.router]

\* set_not_found_handler(h1), then set_not_found_handler(h2) on a router
\* that is then mounted on the root, whose handler is h1: a request under
\* the mount prefix that the mounted router has no route for is answered by h2.
C30_Witness ==
    /\ pc = "sent"
    /\ sel.router # Root
    /\ NothingMatches
    /\ nf_set[Root] = "h1"
    /\ nf_set[sel.router] = "h2"
    /\ resp = HandlerResponse("h2")

\* The default of the root: 404.
C30_WitnessDefault ==
    /\ pc = "sent"
    /\ sel.router = Root
    /\ NothingMatches
    /\ \E r \in Routers \ {Root} : MountedIn(Root, r) /\ nf_set[r] = "h1"
    /\ resp = StatusResponse(NOT_FOUND)

-----------------------------------------------------------------------------
\* Requests served concurrently: one task each over the shared router
\* (server.rs App::run, examples/nested.rs)

\* Most requests the server is handed.
MaxRequests == 3

Pat1A == <<"/", "1", "/", "a">>
Pat2A == <<"/", "2", "/", "a">>
TaskPaths == {PatRoot, Pat1A, Pat2A}
\* Each request carries a body of its own: the bytes tell the path it was
\* sent to.
BodyFor(uri) == IF uri = PatRoot THEN EmptyBytes ELSE IF uri = Pat1A THEN JsonBody ELSE FormBody

\* The app of examples/nested.rs: App::with_state(counter), a middleware,
\* the counter handler on "/", a plain handler on "/a", and a router with a
\* middleware of its own and a handler that binds the parameter, mounted
\* under a parameter prefix.
InitTasks ==
    /\ routers = [r \in Routers |->
            CASE r = Root ->
                    merge(register(register(middleware(middleware(NewRouter, StateMw), "A"),
                                            "GET", PatRoot, request_handler),
                                   "GET", PatA, "h1"),
                          PrefixParam, 1)
              [] r = 1 -> middleware(register(NewRouter, "GET", PatA, "hget"), "B")
              [] OTHER -> NewRouter]
    /\ alive = {Root}
    /\ merge_result = "Ok"
    /\ nf_set = [r \in Routers |-> ""]
    /\ pc = "setup"
    /\ ReqInit

\* The state of the running task, as it is kept while another task runs.
Running ==
    [pc |-> pc, req |-> req, ctx |-> ctx, callee |-> callee, next |-> next, sel |-> sel,
     stack |-> stack, resp |-> resp, log |-> log, parts |-> parts, args |-> args,
     held |-> held, ran |-> ran, calls |-> calls, ret |-> ret, local |-> local]

\* A task resumed with the request context and extensions that were last
\* in use on the server.
Resume_shared_ctx(saved) == [saved EXCEPT !.ctx = ctx, !.parts = parts]

\* A task resumed with the position in the middleware list that the task
\* before it had reached, as if the position were kept with the router.
Resume_shared_next(saved) ==
    IF saved.pc = "next" /\ pc = "next" THEN [saved EXCEPT !.next.idx = next.idx] ELSE saved

\* A task resumes with what it owns: its request with the RequestCtx and
\* extensions in it, and its futures (the Next, the handler's locals).
Resume(saved) == saved

\* How many requests are being processed.
InFlightTasks ==
    Cardinality({t \in DOMAIN others : others[t].pc # "idle"}) + (IF pc = "idle" THEN 0 ELSE 1)

\* A connection's task is handed a request.
TaskReceive(uri) ==
    /\ Len(reports) + InFlightTasks < MaxRequests
    /\ ReceiveRequest("GET", uri, NoHeader, BodyFor(uri), NoQuery)

\* The runtime runs task t: the tasks run in parallel, so their steps
\* interleave in any order.
Switch(t) ==
    /\ pc # "setup"
    /\ t \in DOMAIN others
    /\ LET r == Resume(others[t]) IN
          /\ pc' = r.pc
          /\ req' = r.req
          /\ ctx' = r.ctx
          /\ callee' = r.callee
          /\ next' = r.next
          /\ sel' = r.sel
          /\ stack' = r.stack
          /\ resp' = r.resp
          /\ log' = r.log
          /\ parts' = r.parts
          /\ args' = r.args
          /\ held' = r.held
          /\ ran' = r.ran
          /\ calls' = r.calls
          /\ ret' = r.ret
          /\ local' = r.local
    /\ cur' = t
    /\ others' = [u \in (DOMAIN others \ {t}) \cup {cur} |-> IF u = cur THEN Running ELSE others[u]]
    /\ UNCHANGED <<routers, alive, merge_result, nf_set, gvars, ovars, mutex, counter, reports>>

\* A lock() that is granted whoever holds the mutex.
Mutex_lock_granted_always(holder) == TRUE

\* tokio::sync::Mutex::lock: granted when no guard is alive.
Mutex_lock_granted(holder) == holder = 0

\* request_handler: state.lock().await
MutexLock ==
    /\ pc = "handle"
    /\ sel.endpoint.h = request_handler
    /\ Mutex_lock_granted(mutex)
    /\ mutex' = cur
    /\ local' = [local EXCEPT !.guard = TRUE]
    /\ pc' = "locked"
    /\ UNCHANGED <<routers, alive, merge_result, nf_set, gvars, ovars, reqvars, cur, others, counter, reports>>

\* request_handler: value = *counter
CounterRead ==
    /\ pc = "locked"
    /\ local' = [local EXCEPT !.value = counter]
    /\ pc' = "read"
    /\ UNCHANGED <<routers, alive, merge_result, nf_set, gvars, ovars, reqvars, cur, others, mutex, counter,
                   reports>>

\* request_handler: *counter += 1
CounterIncrement ==
    /\ pc = "read"
    /\ counter' = counter + 1
    /\ pc' = "incremented"
    /\ UNCHANGED <<routers, alive, merge_result, nf_set, gvars, ovars, reqvars, cur, others, mutex, local,
                   reports>>

\* LieResponse::with_html(format!("got request#{} ...", value))
CounterResponse(value) ==
    [status |-> OK, body |-> "got request#" \o ToString(value),
     headers |-> <<"text/html; charset=utf-8">>]

\* request_handler: the guard goes out of scope, and the response is made
\* of the value read.
MutexUnlock ==
    /\ pc = "incremented"
    /\ mutex' = 0
    /\ resp' = CounterResponse(local.value)
    /\ ret' = Value(request_handler)
    /\ ran' = TRUE
    /\ local' = NoLocal
    /\ pc' = "return"
    /\ UNCHANGED <<routers, alive, merge_result, nf_set, gvars, ovars, req, ctx, callee, next, sel, stack, log,
                   parts, args, held, calls, cur, others, counter, reports>>

\* The response is written to the connection, and the request dropped.
TaskDrop ==
    /\ DropRequest
    /\ reports' = Append(reports, resp.body)
    /\ UNCHANGED <<nf_set, gvars, ovars, local, cur, others, mutex, counter>>

NextTasks ==
    \/ Serve
    \/ \E uri \in TaskPaths : TaskReceive(uri)
    \/ \E t \in Tasks : Switch(t)
    \/ Route
    \/ MiddlewareHandle
    \/ EndpointCall
    \/ Extract
    \/ HandlerBody
    \/ MutexLock
    \/ CounterRead
    \/ CounterIncrement
    \/ MutexUnlock
    \/ MiddlewareReturn
    \/ Respond
    \/ TaskDrop

SpecTasks == InitTasks /\ [][NextTasks]_vars

-----------------------------------------------------------------------------
\* Properties of concurrently served requests (SpecTasks)

\* The state of task t, running or not.
TaskState(t) == IF t = cur THEN Running ELSE others[t]

\* The bodies the counter handler answers with.
CounterBodies == {CounterResponse(n).body : n \in 0..MaxRequests}
CounterReports == SelectSeq(reports, LAMBDA b : b \in CounterBodies)

\* What task t reports or is about to report of the counter, if anything.
Reporting(t) ==
    LET s == TaskState(t) IN
    IF s.local.value # -1 THEN {CounterResponse(s.local.value).body}
    ELSE IF s.resp.body \in CounterBodies THEN {s.resp.body}
    ELSE {}

\* Whether task t has incremented the counter for a request it has not
\* answered yet.
HasIncremented(t) ==
    LET s == TaskState(t) IN s.pc = "incremented" \/ s.resp.body \in CounterBodies

\* C26: every request that asks for the state is handed the one state of
\* the app.  The counter handler runs its read and its increment under the
\* state's mutex, which one task holds at a time, so no two requests report
\* the same counter value, whatever the interleaving; the counter is the
\* number of requests that have incremented it, and when N requests for
\* the counter are completed and none is in flight the counter is N and the
\* values reported are 0 .. N-1.
C26_SharedCounter ==
    /\ \A t \in Tasks : \A k \in 1..Len(TaskState(t).args) :
            TaskState(t).args[k].ext = "AppState"
                => TaskState(t).args[k].ok /\ TaskState(t).args[k].value = StateValue
    /\ \A t \in Tasks : TaskState(t).local.guard <=> mutex = t
    /\ \A t \in Tasks : TaskState(t).pc \in {"locked", "read", "incremented"}
                            <=> TaskState(t).local.guard
    /\ \A i, j \in 1..Len(CounterReports) : i # j => CounterReports[i] # CounterReports[j]
    /\ \A t \in Tasks :
            /\ \A i \in 1..Len(CounterReports) : CounterReports[i] \notin Reporting(t)
            /\ \A u \in Tasks \ {t} : Reporting(t) \cap Reporting(u) = {}
    /\ counter = Len(CounterReports) + Cardinality({t \in Tasks : HasIncremented(t)})
    /\ (\A t \in Tasks : TaskState(t).pc = "idle") =>
            /\ counter = Len(CounterReports)
            /\ {CounterReports[i] : i \in 1..Len(CounterReports)}
                    = {CounterResponse(n).body : n \in 0..(counter - 1)}

\* Three requests for the counter, two of them in flight together: the one
\* that read 1 was answered before the one that read 0.
C26_Witness ==
    /\ \A t \in Tasks : TaskState(t).pc = "idle"
    /\ counter = 3
    /\ reports = <<CounterResponse(1).body, CounterResponse(0).body, CounterResponse(2).body>>



\* The middlewares of router r that task state s has entered, in order.
EnteredAt(s, r) ==
    LET mw == SelectSeq(s.log, LAMBDA e : e.ev = "middleware" /\ e.router = r) IN
    [k \in 1..Len(mw) |-> mw[k].id]

\* Whether the endpoint the Next of router r ended in was called.
EndpointCalledAt(s, r) == \E k \in 1..Len(s.log) : s.log[k].ev = "endpoint" /\ s.log[k].router = r

\* What the route table of the root gives for a request of the model.
RootEndpoint(uri) ==
    IF uri = PatRoot THEN HandlerEp(request_handler) ELSE RouterEndpoint(1)

\* C24: once the app serves, no step of any task changes a router: its
\* routes, its not-found endpoint and its middleware list stay as set up.
\* Every request, whatever the other task is doing, is given the endpoint
\* the table holds for its method and route path, two requests with the
\* same method and route path at a router the same one, and passes the
\* router's middlewares in the order of its list, all of them before the
\* endpoint is called.
C24_RouteTableReadOnly ==
    /\ [][pc # "setup" => routers' = routers /\ nf_set' = nf_set]_vars
    /\ [](\A t \in Tasks :
            LET s == TaskState(t) IN
            /\ s.sel # NoSel =>
                  /\ s.sel.endpoint =
                        (IF s.sel.router = Root THEN RootEndpoint(s.req.uri)
                         ELSE HandlerEp("hget"))
                  /\ s.sel.router = Root => s.sel.path = s.req.uri
                  /\ \A u \in Tasks :
                        (/\ TaskState(u).sel.router = s.sel.router
                         /\ TaskState(u).sel.method = s.sel.method
                         /\ TaskState(u).sel.path = s.sel.path)
                            => TaskState(u).sel.endpoint = s.sel.endpoint
            /\ \A r \in Routers :
                  /\ Len(EnteredAt(s, r)) <= Len(routers[r].middlewares)
                  /\ EnteredAt(s, r) = SubSeq(routers[r].middlewares, 1, Len(EnteredAt(s, r)))
                  /\ EndpointCalledAt(s, r) => EnteredAt(s, r) = routers[r].middlewares
            /\ \A k \in 1..Len(s.log) :
                  s.log[k].ev = "endpoint" =>
                      s.log[k].id = (IF s.log[k].router # Root THEN "hget"
                                     ELSE EndpointId(RootEndpoint(s.req.uri))))

\* Two requests for /1/a in flight together, one answered and the other
\* between the middlewares of the mounted router: the same endpoint was
\* selected for both.
C24_Witness ==
    /\ cur = 2
    /\ pc = "sent"
    /\ req.uri = Pat1A
    /\ others[1].req.uri = Pat1A
    /\ others[1].pc = "next"
    /\ others[1].sel = sel
    /\ others[1].log = SubSeq(log, 1, 3)
    /\ Len(reports) = 1

\* What task state s holds of a request for the mounted router: the
\* parameter and the route-path cursor of its own URI.
OwnContext(s) ==
    /\ s.req.uri = PatRoot => s.ctx = NewCtx
    /\ (s.req.uri # PatRoot /\ s.sel # NoSel) =>
          /\ s.ctx.params[ParamName] = <<s.req.uri[2]>>
          /\ s.ctx.params[LIEWEB_NESTED_ROUTER] = <<"a">>
          /\ s.ctx.route_path = Some(<<"a">>)
    /\ s.sel = NoSel => s.ctx = NewCtx

\* The request as the task holds it: in place, or taken whole by the
\* RequestParts parameter of the handler.
OwnParts(s) == IF s.args # <<>> /\ s.args[1].ext = "RequestParts" THEN s.held ELSE s.parts

\* C25: a step of the running task leaves the state of every other task
\* as it is, and a task resumes with exactly what it was suspended with.
\* What a task holds is made of its own request alone: the Params and the
\* cursor are those of its own URI, the body slot holds its own body, the
\* state extension is there once the task has passed the state middleware,
\* and the parameter its handler binds is the one of its own path.
C25_ContextPerTask ==
    /\ [][cur' = cur => others' = others]_vars
    /\ [][cur' # cur =>
            /\ others'[cur] = Running
            /\ Running' = others[cur']
            /\ \A t \in Tasks \ {cur, cur'} : others'[t] = others[t]]_vars
    /\ [](\A t \in Tasks :
            LET s == TaskState(t) IN
            s.pc \notin {"setup", "idle"} =>
                /\ OwnContext(s)
                /\ OwnParts(s).has_ctx
                /\ OwnParts(s).body = BodySome(BodyFor(s.req.uri))
                /\ OwnParts(s).state = StateValue <=> EnteredAt(s, Root) # <<>>
                /\ \A k \in 1..Len(s.calls) :
                        s.calls[k].call = "get_param" =>
                            s.calls[k].ok /\ s.calls[k].result = parse_u32(<<s.req.uri[2]>>).value)

\* Requests for /1/a and /2/a in flight together, both past the handler:
\* each has bound the parameter of its own path and holds its own body.
C25_Witness ==
    /\ cur = 2
    /\ pc = "return"
    /\ req.uri = Pat2A
    /\ calls = <<[call |-> "get_param", ok |-> TRUE, result |-> 2]>>
    /\ ctx.params[ParamName] = <<"2">>
    /\ held.body.data = FormBody
    /\ others[1].pc = "return"
    /\ others[1].req.uri = Pat1A
    /\ others[1].calls = <<[call |-> "get_param", ok |-> TRUE, result |-> 1]>>
    /\ others[1].ctx.params[ParamName] = <<"1">>
    /\ others[1].held.body.data = JsonBody

-----------------------------------------------------------------------------
\* Registering routes one call at a time (router.rs, Router::register)

\* The methods and patterns the calls choose from: no two of the patterns
\* have one shape.
RegisterMethods == {"GET", "POST"}
RegisterPatterns == {PatRoot, PatA, PatParam}

\* The endpoint a router holds for a pattern and a method: the handler of
\* the method map of the pattern's route, "" when there is none.
Entry(router, path, method) ==
    LET route == at_or_default(router.path_router, path) IN
    IF route.kind = "Method" /\ method \in DOMAIN route.map THEN route.map[method] ELSE ""

\* app.register(method, path, h) on the root router; the call is recorded
\* with the endpoint the slot held before it.
RegisterCall(method, path, h) ==
    /\ pc = "setup"
    /\ at_or_default(routers[Root].path_router, path).kind # "Sub"
    /\ routers' = [routers EXCEPT ![Root] = register(@, method, path, h)]
    /\ reg_call' = [method |-> method, path |-> path, h |-> h,
                    old |-> Entry(routers[Root], path, method)]
    /\ UNCHANGED <<alive, merge_result, pc, reqvars, nf_set, tvars, gvars, dh, srv, cp, sd>>

NextRegister ==
    \E method \in RegisterMethods, path \in RegisterPatterns, h \in Handlers :
        RegisterCall(method, path, h)

SpecRegister == Init /\ [][NextRegister]_vars

-----------------------------------------------------------------------------
\* What routing through a mount leaves of the request (router.rs, request.rs)

\* The request is with a handler of a mounted router.
InSubHandler == pc \in {"extract", "handle"} /\ sel.router # Root

\* C32: Router::route, of the root router and of a mounted one, writes only
\* the route path and the parameters of the request context: the method,
\* the URI, the Content-Type, the query string, the body slot and the other
\* extensions of the request are as before, and path() gives a handler of a
\* mounted router the whole path the request came with, mount prefix
\* included.
C32_RoutingKeepsRequest ==
    /\ [][pc = "route" =>
            /\ req' = req
            /\ parts' = parts
            /\ LieRequest_path(req', ctx') = LieRequest_path(req, ctx)]_vars
    /\ [](InSubHandler =>
            /\ Len(LieRequest_path(req, ctx)) > Len(PrefixA)
            /\ SubSeq(LieRequest_path(req, ctx), 1, Len(PrefixA)) = PrefixA)

\* A handler of the mounted router holds a request with a Content-Type, a
\* body and a query string, two routers have moved the route path, and the
\* path of the request is still the whole one.
C32_Witness ==
    /\ InSubHandler
    /\ ctx.route_path.some
    /\ ctx.route_path.path # req.uri
    /\ LieRequest_path(req, ctx) = <<"/", "a", "/", "1">>
    /\ parts.content_type = APPLICATION_JSON
    /\ parts.body = BodySome(JsonBody)
    /\ parts.query = GoodQuery
    /\ req.method = "POST"

-----------------------------------------------------------------------------
\* Extractors that take the request whole (extracts.rs, endpoint.rs)

\* The parameter types whose from_request replaces the request by an empty
\* one, and the positions of the parameter list filled so far with one.
WholeExts == {"RequestParts", "Request", "Incoming"}
WholeTakenBefore(k) == \E j \in 1..(k - 1) : args[j].ext \in WholeExts
BodyReadBefore(k) ==
    \E j \in 1..(k - 1) : args[j].ext \in {"Json", "Form", "BytesBody"} /\ args[j].ok

\* What the handler's parameter k came to.
ArgOutcome(k) == [ok |-> args[k].ok, rejection |-> args[k].rejection]
Refused(rej) == [ok |-> FALSE, rejection |-> rej]

\* C33: once a parameter of a handler has taken the request whole
\* (RequestParts, Request or the raw body), the request left for the
\* parameters after it is the empty one: an AppState after it is rejected
\* as missing, a body extractor and a second whole-request extractor as
\* body-taken, and a PathParam finds no parameters, whatever the request
\* held; the values of the parameters before it are those of the request as
\* it was; and Request after an extractor that read the body is rejected
\* as body-taken, the handler not run.
C33_WholeRequestLeavesBlank ==
    \A k \in 1..Len(args) :
        /\ args[k].ext \in WholeExts =>
                /\ parts = DefaultParts
                /\ (args[k].ok /\ args[k].ext # "Incoming") => held # DefaultParts
                /\ \A j \in 1..(k - 1) :
                        (args[k].ok /\ args[j].ext \in {"Query", "PathParam", "AppState"}) =>
                            LET r == from_request(args[j].ext, held, ctx) IN
                            /\ args[j].ok = r.ok
                            /\ args[j].value = r.value
        /\ WholeTakenBefore(k) =>
                /\ args[k].ext = "AppState" =>
                        ArgOutcome(k) = Refused(Rejection("StateRejection", "StateRejection"))
                /\ args[k].ext = "BytesBody" => ArgOutcome(k) = Refused(BodyBeenTaken)
                /\ args[k].ext \in {"Request", "Incoming"} => ArgOutcome(k) = Refused(BodyTaken)
                /\ args[k].ext = "PathParam" =>
                        /\ ~from_params(<<>>).ok
                        /\ ArgOutcome(k) =
                                Refused(Rejection("ParamsRejection", "ParamsRejection"))
                /\ ~ran
        /\ (args[k].ext = "Request" /\ BodyReadBefore(k)) =>
                /\ ArgOutcome(k) = Refused(BodyTaken)
                /\ ~ran

\* The app has a state and the request a query string; the Query before
\* RequestParts has its value, the AppState after it is rejected.
C33_Witness ==
    /\ StateMw \in {routers[Root].middlewares[i] : i \in 1..Len(routers[Root].middlewares)}
    /\ Len(args) = 3
    /\ args[1].ext = "Query" /\ args[1].ok /\ args[1].value = [page |-> 1]
    /\ args[2].ext = "RequestParts" /\ args[2].ok
    /\ args[3].ext = "AppState" /\ ~args[3].ok
    /\ held.state = StateValue
    /\ held.body = BodySome(JsonBody)

\* The body after RequestParts, with a body in the request.
C33_WitnessBody ==
    /\ Len(args) = 2
    /\ args[1].ext = "RequestParts" /\ args[2].ext = "BytesBody" /\ ~args[2].ok
    /\ held.body = BodySome(FormBody)

\* A path parameter after the raw body, with a parameter that parses.
C33_WitnessParam ==
    /\ Len(args) = 2
    /\ args[1].ext = "Incoming" /\ args[1].ok
    /\ args[2].ext = "PathParam" /\ ~args[2].ok
    /\ from_params(ctx.params).ok

\* Request after Json read the body.
C33_WitnessAfterBody ==
    /\ Len(args) = 2
    /\ args[1].ext = "Json" /\ args[1].ok
    /\ args[2].ext = "Request" /\ ~args[2].ok
    /\ pc = "return"
    /\ resp = LieResponse_new(INTERNAL_SERVER_ERROR, "Body has been taken")

\* Request as the last parameter, the handler run with what came before.
C33_WitnessRun ==
    /\ Len(args) = 3
    /\ args[3].ext = "Request" /\ args[3].ok
    /\ args[1].value = [i |-> 1]
    /\ ran

-----------------------------------------------------------------------------
\* Request ids over concurrent requests (middleware/request_id.rs)

\* An app whose root has a handler that answers with the request id it
\* reads, and a router with one RequestId instance and the same handler,
\* mounted under /a/.
InitIds ==
    /\ routers = [r \in Routers |->
            CASE r = Root -> merge(register(middleware(NewRouter, "A"), "GET", PatRoot, "hid"),
                                   PrefixA, 1)
              [] r = 1 -> middleware(register(NewRouter, "GET", PatA, "hid"), RequestIdMw)
              [] OTHER -> NewRouter]
    /\ alive = {Root}
    /\ merge_result = "Ok"
    /\ nf_set = [r \in Routers |-> ""]
    /\ pc = "setup"
    /\ ReqInit

IdPaths == {PatRoot, PatAA}

NextIds ==
    \/ Serve
    \/ \E uri \in IdPaths : TaskReceive(uri)
    \/ \E t \in Tasks : Switch(t)
    \/ Route
    \/ MiddlewareHandle
    \/ EndpointCall
    \/ Extract
    \/ HandlerBody
    \/ MiddlewareReturn
    \/ Respond
    \/ TaskDrop

SpecIds == InitIds /\ [][NextIds]_vars

\* The id the request of task state s carries, "" when it carries none,
\* and whether the request has been through the RequestId middleware.
IdOf(s) == get_request_id(OwnParts(s))
PassedRequestId(s) ==
    \E k \in 1..Len(s.log) : s.log[k].ev = "middleware" /\ s.log[k].id = RequestIdMw
IdsInFlight == {t \in Tasks : TaskState(t).pc # "idle"}
ReportedIds == {reports[k] : k \in 1..Len(reports)} \ {""}
CarriedIds == {IdOf(TaskState(t)) : t \in IdsInFlight} \ {""}

\* C34: whatever the interleaving of the tasks, the ids one RequestId
\* instance has given are prefix_0, prefix_1, ... prefix_(count-1), one per
\* request that went through it and no two the same; a request carries its
\* id from the moment the middleware ran, before the rest of the chain and
\* the endpoint, and a handler reads exactly it; a request that did not go
\* through the middleware reads the empty id.
C34_RequestIdsDistinct ==
    /\ ReportedIds \cup CarriedIds = {RequestIdValue(RequestIdPrefix, n) : n \in 0..(count - 1)}
    /\ Cardinality({t \in IdsInFlight : PassedRequestId(TaskState(t))})
            + Cardinality({k \in 1..Len(reports) : reports[k] # ""}) = count
    /\ \A t, u \in IdsInFlight :
            (t # u /\ IdOf(TaskState(t)) # "") => IdOf(TaskState(t)) # IdOf(TaskState(u))
    /\ \A t \in IdsInFlight : IdOf(TaskState(t)) \notin ReportedIds
    /\ \A i, j \in 1..Len(reports) : (i # j /\ reports[i] # "") => reports[i] # reports[j]
    /\ \A t \in IdsInFlight :
            LET s == TaskState(t) IN
            /\ PassedRequestId(s) <=> IdOf(s) # ""
            /\ PassedRequestId(s) => s.req.uri = PatAA
            /\ EndpointCalledAt(s, 1) => PassedRequestId(s)
            /\ s.ran => s.resp.body = IdOf(s)

\* Two requests are with the handler at once, each with an id of its own,
\* the task that came second holding the lower one; a request answered by
\* the root read the empty id.
C34_Witness ==
    /\ cur = 1
    /\ pc = "handle"
    /\ IdOf(Running) = RequestIdValue(RequestIdPrefix, 1)
    /\ 2 \in DOMAIN others
    /\ others[2].pc = "handle"
    /\ IdOf(others[2]) = RequestIdValue(RequestIdPrefix, 0)
    /\ reports = <<"">>

\* Three requests through the middleware, all answered.
C34_WitnessAll ==
    /\ IdsInFlight = {}
    /\ reports = <<"p_1", "p_0", "p_2">>

-----------------------------------------------------------------------------
\* The built-in middlewares in a chain (middleware/access_log.rs,
\* with_state.rs, request_id.rs, default_headers.rs)

\* WithState, RequestId, AccessLog and a DefaultHeaders with the header A.
BuiltinMwIds == {StateMw, RequestIdMw, AccessLogMw, "A"}
BuiltinPaths == {PatRoot, PatA, PatAA}

\* Any chains of built-in middlewares on the root and on a router mounted
\* under /a/, then requests one after the other.
NextBuiltin ==
    \/ \E r \in {Root, 2}, m \in BuiltinMwIds : Middleware(r, m)
    \/ Merge(Root, PrefixA, 2)
    \/ Serve
    \/ \E uri \in BuiltinPaths : TaskReceive(uri)
    \/ Route
    \/ MiddlewareHandle
    \/ EndpointCall
    \/ MiddlewareReturn
    \/ Respond
    \/ TaskDrop

SpecBuiltin == InitChain /\ [][NextBuiltin]_vars


\* The routers whose chain the request has been handed to.
ChainsStarted == {r \in Routers : \E k \in 1..Len(log) : log[k].router = r}

\* The frame whose middleware the response is handed to next.
TopFrame == stack[awaiting(stack)]

\* C36: no built-in middleware answers by itself and each runs its Next
\* once: when a request is answered, every router that was handed it has
\* had each middleware of its list entered once, in order, and its endpoint
\* called.  WithState, RequestId and AccessLog return the response of
\* next.run() as it is; DefaultHeaders changes neither status nor body.
\* AccessLog writes its record when next.run() has returned, one record,
\* with the status of that response and the method and path of the
\* request.
C36_BuiltinsPassThrough ==
    /\ [](Answered =>
            /\ \A r \in ChainsStarted :
                    /\ EnteredAt(Running, r) = routers[r].middlewares
                    /\ EndpointCalledAt(Running, r)
            /\ log[Len(log)].ev = "endpoint"
            /\ resp.status = EndpointResponse(sel.endpoint).status
            /\ resp.body = EndpointResponse(sel.endpoint).body)
    /\ [][(pc = "return" /\ stack # <<>>) =>
            /\ TopFrame.id \in PassThroughMw => resp' = resp
            /\ TopFrame.id = AccessLogMw =>
                    /\ Len(access_log') = Len(access_log) + 1
                    /\ access_log'[Len(access_log')] =
                            [method |-> req.method, path |-> req.uri, status |-> resp.status]
            /\ TopFrame.id # AccessLogMw => access_log' = access_log]_vars
    /\ [][access_log' # access_log =>
            /\ pc = "return"
            /\ stack # <<>>
            /\ TopFrame.id = AccessLogMw
            /\ SubSeq(access_log', 1, Len(access_log)) = access_log]_vars

\* AccessLog around DefaultHeaders on the root, a request that is answered
\* 405: the record has that status, and the response AccessLog returned is
\* the one DefaultHeaders gave it.
C36_Witness ==
    /\ pc = "sent"
    /\ routers[Root].middlewares = <<AccessLogMw, "A">>
    /\ resp = [status |-> METHOD_NOT_ALLOWED, body |-> "", headers |-> <<"A">>]
    /\ access_log # <<>>
    /\ access_log[Len(access_log)] =
            [method |-> "GET", path |-> PatA, status |-> METHOD_NOT_ALLOWED]

\* RequestId on the root and WithState on the mounted router, the handler of
\* the mounted router answered: its response as the endpoint made it.
C36_WitnessMounted ==
    /\ pc = "sent"
    /\ routers[Root].middlewares = <<RequestIdMw>>
    /\ routers[2].middlewares = <<StateMw>>
    /\ sel.router = 2
    /\ resp = HandlerResponse("h1")
    /\ parts.state = StateValue
    /\ parts.request_id # <<>>

-----------------------------------------------------------------------------
\* The DefaultHeaders middleware (middleware/default_headers.rs)

\* Header names and values are sequences of characters.  HeaderName::try_from
\* takes the token characters and turns upper case into lower case; an empty
\* name, or one with another character, is an error.
Lower(c) == IF c = "X" THEN "x" ELSE IF c = "A" THEN "a" ELSE IF c = "B" THEN "b" ELSE c
IsToken(c) == Lower(c) \in {"x", "a", "b", "c", "-"}
HeaderName_try_from(name) ==
    IF name # <<>> /\ \A k \in 1..Len(name) : IsToken(name[k])
    THEN [ok |-> TRUE, name |-> [k \in 1..Len(name) |-> Lower(name[k])]]
    ELSE [ok |-> FALSE, name |-> <<>>]

\* HeaderValue::try_from: visible characters, space and tab; a control
\* character such as a line feed is an error.
HeaderValue_try_from(value) ==
    IF \A k \in 1..Len(value) : value[k] # "\n"
    THEN [ok |-> TRUE, value |-> value]
    ELSE [ok |-> FALSE, value |-> <<>>]

\* A HeaderMap is the sequence of its entries <<name, value>>.
HeaderMap_get_all(map, name) ==
    LET hits == SelectSeq(map, LAMBDA e : e[1] = name) IN
    [k \in 1..Len(hits) |-> hits[k][2]]

\* HeaderMap::insert: a new entry for a new name; for a name the map has,
\* the value takes the place of its values, where the first of them is.
HeaderMap_insert(map, name, value) ==
    IF \A k \in 1..Len(map) : map[k][1] # name
    THEN Append(map, <<name, value>>)
    ELSE LET first == CHOOSE k \in 1..Len(map) :
                        map[k][1] = name /\ \A j \in 1..(k - 1) : map[j][1] # name
         IN SubSeq(map, 1, first - 1) \o <<<<name, value>>>>
                \o SelectSeq(SubSeq(map, first + 1, Len(map)), LAMBDA e : e[1] # name)

\* An append that takes the place of the values the name has.
HeaderMap_append_replacing(map, name, value) ==
    Append(SelectSeq(map, LAMBDA e : e[1] # name), <<name, value>>)

\* HeaderMap::append: the value is added after the values the name has.
HeaderMap_append(map, name, value) == Append(map, <<name, value>>)

\* DefaultHeaders::header
DefaultHeaders_header(headers, name, value) ==
    LET n == HeaderName_try_from(name)
        v == HeaderValue_try_from(value)
    IN IF n.ok /\ v.ok THEN HeaderMap_insert(headers, n.name, v.value) ELSE headers

\* DefaultHeaders::append_header, after next.run(): every configured header
\* appended to the headers of the response.
RECURSIVE AppendAll(_, _)
AppendAll(headers, configured) ==
    IF configured = <<>> THEN headers
    ELSE AppendAll(HeaderMap_append(headers, Head(configured)[1], Head(configured)[2]),
                   Tail(configured))

append_header(configured, res) == [res EXCEPT !.headers = AppendAll(@, configured)]

\* The names and values the calls of header() choose from, the responses
\* of the downstream chain.
XA == <<"x", "-", "a">>
XB == <<"x", "-", "b">>
XC == <<"x", "-", "c">>
HeaderNames == {XA, <<"X", "-", "A">>, XB, <<"x", " ", "a">>, <<>>}
HeaderValues == {<<"1">>, <<"2">>, <<"1", "\n">>}
DownstreamHeaders == {<<>>, <<<<XA, <<"0">>>>>>, <<<<XC, <<"0">>>>, <<XA, <<"0">>>>>>}
DownstreamResponses ==
    {[status |-> st, body |-> b, headers |-> hs] :
        st \in {OK, NOT_FOUND}, b \in {"", "h1"}, hs \in DownstreamHeaders}

\* headers.header(name, value), before the middleware is given to the app.
DhHeader(name, value) ==
    /\ dh.pc = "config"
    /\ dh' = [dh EXCEPT !.headers = DefaultHeaders_header(@, name, value),
                        !.last = [name |-> name, value |-> value]]
    /\ UNCHANGED <<pvars, reg_call, srv, cp, sd>>

\* Middleware::handle: append_header calls next.run(ctx) and awaits it.
DhHandle ==
    /\ dh.pc \in {"config", "done"}
    /\ dh' = [dh EXCEPT !.pc = "awaiting", !.down = NoResp, !.out = NoResp]
    /\ UNCHANGED <<pvars, reg_call, srv, cp, sd>>

\* The downstream chain returns its response.
DhDownstream(res) ==
    /\ dh.pc = "awaiting"
    /\ dh' = [dh EXCEPT !.pc = "returned", !.down = res]
    /\ UNCHANGED <<pvars, reg_call, srv, cp, sd>>

\* append_header after the await: the headers appended, the response
\* returned.
DhReturn ==
    /\ dh.pc = "returned"
    /\ dh' = [dh EXCEPT !.pc = "done", !.out = append_header(dh.headers, dh.down)]
    /\ UNCHANGED <<pvars, reg_call, srv, cp, sd>>

NextHeaders ==
    \/ \E name \in HeaderNames, value \in HeaderValues : DhHeader(name, value)
    \/ DhHandle
    \/ \E res \in DownstreamResponses : DhDownstream(res)
    \/ DhReturn

SpecHeaders == Init /\ [][NextHeaders]_vars

\* The header names of the model as HeaderName holds them.
KnownNames == {XA, XB, XC}

\* C35: DefaultHeaders returns nothing before the downstream chain has
\* returned; what it returns has the status and the body of the downstream
\* response and all its headers, in place, followed by the configured
\* headers: a name the downstream response carries keeps its values and
\* gets the configured one after them.  header(name, value) with a name or
\* a value that does not convert leaves the configured headers as they
\* were; otherwise the name has that one value afterwards, whatever it had
\* before, and the other names keep theirs.
C35_DefaultHeadersAppend ==
    /\ [](dh.pc \in {"config", "awaiting", "returned"} => dh.out = NoResp)
    /\ [](dh.pc = "done" =>
            /\ dh.out.status = dh.down.status
            /\ dh.out.body = dh.down.body
            /\ SubSeq(dh.out.headers, 1, Len(dh.down.headers)) = dh.down.headers
            /\ Len(dh.out.headers) = Len(dh.down.headers) + Len(dh.headers)
            /\ \A n \in KnownNames :
                    HeaderMap_get_all(dh.out.headers, n) =
                        HeaderMap_get_all(dh.down.headers, n) \o HeaderMap_get_all(dh.headers, n))
    /\ [][dh.pc = "config" /\ dh'.pc = "config" =>
            LET n == HeaderName_try_from(dh'.last.name)
                v == HeaderValue_try_from(dh'.last.value)
            IN IF n.ok /\ v.ok
               THEN /\ HeaderMap_get_all(dh'.headers, n.name) = <<dh'.last.value>>
                    /\ \A m \in KnownNames \ {n.name} :
                            HeaderMap_get_all(dh'.headers, m) = HeaderMap_get_all(dh.headers, m)
               ELSE dh'.headers = dh.headers]_vars
    /\ [](\A n \in KnownNames : Len(HeaderMap_get_all(dh.headers, n)) <= 1)

\* x-a was set twice and x-b once; the downstream response has an x-a of
\* its own, which is kept in front of the configured one.
C35_Witness ==
    /\ dh.pc = "done"
    /\ dh.last = [name |-> <<"X", "-", "A">>, value |-> <<"2">>]
    /\ dh.headers = <<<<XA, <<"2">>>>, <<XB, <<"1">>>>>>
    /\ dh.down.headers = <<<<XC, <<"0">>>>, <<XA, <<"0">>>>>>
    /\ dh.out.headers = <<<<XC, <<"0">>>>, <<XA, <<"0">>>>, <<XA, <<"2">>>>, <<XB, <<"1">>>>>>
    /\ dh.out.status = NOT_FOUND

\* A call with a value that does not convert, after two that did.
C35_WitnessInvalid ==
    /\ dh.pc = "config"
    /\ dh.last = [name |-> XA, value |-> <<"1", "\n">>]
    /\ dh.headers = <<<<XA, <<"2">>>>, <<XB, <<"1">>>>>>

-----------------------------------------------------------------------------
\* The common prefix of two paths (pathrouter.rs, find_commprefix)

\* Longest string, in characters, the calls are made with.
MaxStr == 3

\* A str is the sequence of its characters; in memory it is their UTF-8
\* encoding, one byte for an ASCII character and two for "é".
StrChars == {"a", "b", "é"}
len_utf8(c) == IF c = "é" THEN 2 ELSE 1

RECURSIVE str_len(_)
str_len(s) == IF s = <<>> THEN 0 ELSE len_utf8(Head(s)) + str_len(Tail(s))

Strs == UNION {[1..n -> StrChars] : n \in 0..MaxStr}

\* &s[..n]: the first n bytes of s; a panic when n is not on a character
\* boundary of s.
str_slice_to(s, n) ==
    IF \E k \in 0..Len(s) : str_len(SubSeq(s, 1, k)) = n
    THEN [panic |-> FALSE,
          str |-> SubSeq(s, 1, CHOOSE k \in 0..Len(s) : str_len(SubSeq(s, 1, k)) = n)]
    ELSE [panic |-> TRUE, str |-> <<>>]

\* find_commprefix: the loop over a.chars() and b.chars(), `offset` one up
\* for each pair of equal characters, and the slice it returns.
RECURSIVE find_commprefix_loop(_, _, _, _)
find_commprefix_loop(a, b, offset, i) ==
    CASE i <= Len(a) /\ i > Len(b) -> str_slice_to(a, offset)
      [] i > Len(a) /\ i <= Len(b) -> str_slice_to(b, offset)
      [] i > Len(a) /\ i > Len(b) -> str_slice_to(a, offset)
      [] OTHER -> IF a[i] = b[i] THEN find_commprefix_loop(a, b, offset + 1, i + 1)
                  ELSE str_slice_to(a, offset)

find_commprefix(a, b) == find_commprefix_loop(a, b, 0, 1)

\* The caller has its two strings.
CommPrefixArgs(a, b) ==
    /\ cp.pc = "init"
    /\ cp' = [cp EXCEPT !.a = a, !.b = b, !.pc = "args"]
    /\ UNCHANGED <<pvars, reg_call, dh, srv, sd>>

\* The call of find_commprefix with them.
CommPrefixCall ==
    /\ cp.pc = "args"
    /\ cp' = [cp EXCEPT !.result = find_commprefix(cp.a, cp.b), !.pc = "called"]
    /\ UNCHANGED <<pvars, reg_call, dh, srv, sd>>

NextPrefix ==
    \/ \E a \in Strs, b \in Strs : CommPrefixArgs(a, b)
    \/ CommPrefixCall

SpecPrefix == Init /\ [][NextPrefix]_vars

IsPrefix(p, s) == Len(p) <= Len(s) /\ SubSeq(s, 1, Len(p)) = p

\* What the claim asks of the result p of a call with a and b.
LongestCommonPrefix(a, b, p) ==
    /\ IsPrefix(p, a)
    /\ IsPrefix(p, b)
    /\ Len(p) = Len(a) \/ Len(p) = Len(b) \/ a[Len(p) + 1] # b[Len(p) + 1]
    /\ (a = <<>> \/ b = <<>> \/ a[1] # b[1]) => p = <<>>

\* C38: every call of find_commprefix returns, and returns the longest
\* common prefix of its arguments: a prefix of both, after which the
\* arguments differ or one has ended, empty when an argument is empty or the
\* first characters differ, and the same for (a, b) as for (b, a).
C38_LongestCommonPrefix ==
    cp.pc = "called" =>
        /\ ~cp.result.panic
        /\ LongestCommonPrefix(cp.a, cp.b, cp.result.str)
        /\ find_commprefix(cp.b, cp.a) = cp.result

\* The same for arguments of ASCII characters, where bytes and characters
\* are counted alike.
IsAscii(s) == \A k \in 1..Len(s) : len_utf8(s[k]) = 1
C38_AsciiLongestCommonPrefix ==
    (cp.pc = "called" /\ IsAscii(cp.a) /\ IsAscii(cp.b)) =>
        /\ ~cp.result.panic
        /\ LongestCommonPrefix(cp.a, cp.b, cp.result.str)
        /\ find_commprefix(cp.b, cp.a) = cp.result

\* A call with two-byte characters in the common prefix: a panic, or a
\* result that is shorter than the common prefix.
C38_WitnessPanic ==
    cp.pc = "called" /\ cp.a = <<"é", "a">> /\ cp.b = <<"é", "b">> /\ cp.result.panic
C38_WitnessShort ==
    /\ cp.pc = "called" /\ cp.a = <<"é", "é">> /\ cp.b = <<"é", "é">>
    /\ cp.result = [panic |-> FALSE, str |-> <<"é">>]
C38_WitnessAscii ==
    /\ cp.pc = "called" /\ cp.a = <<"a", "b", "a">> /\ cp.b = <<"a", "b", "b">>
    /\ cp.result = [panic |-> FALSE, str |-> <<"a", "b">>]

-----------------------------------------------------------------------------
\* Shutdown and its Watchers (shutdown.rs)

\* The Watchers held at once.
HeldWatchers(s) == {h \in Holders : s.watchers[h] = "held"}

\* The Sender handles of the channel that are alive: the one of the
\* Shutdown and one in each Watcher.
Senders(s) == (IF s.sender THEN 1 ELSE 0) + Cardinality(HeldWatchers(s))

\* A recv() that returns whatever senders are alive.
Receiver_recv_ready_any(senders) == TRUE

\* Receiver::recv on a channel nothing is sent on: it returns (None) when
\* every Sender has been dropped, and is pending until then.
Receiver_recv_ready(senders) == senders = 0

\* shutdown.watch(): holder h is given a Watcher; watch() takes &self, so
\* there is none after shutdown(self).
Watch(h) ==
    /\ sd.fut = "none"
    /\ sd.watchers[h] = "none"
    /\ sd' = [sd EXCEPT !.watchers[h] = "held"]
    /\ UNCHANGED <<pvars, reg_call, dh, srv, cp>>

\* Holder h drops its Watcher.
WatcherDrop(h) ==
    /\ sd.watchers[h] = "held"
    /\ sd' = [sd EXCEPT !.watchers[h] = "dropped"]
    /\ UNCHANGED <<pvars, reg_call, dh, srv, cp>>

\* shutdown(self) up to its await: the sender of the Shutdown is dropped.
ShutdownCall ==
    /\ sd.fut = "none"
    /\ sd' = [sd EXCEPT !.sender = FALSE, !.fut = "pending"]
    /\ UNCHANGED <<pvars, reg_call, dh, srv, cp>>

\* receiver.recv().await returns, and shutdown() with it.
ShutdownRecv ==
    /\ sd.fut = "pending"
    /\ Receiver_recv_ready(Senders(sd))
    /\ sd' = [sd EXCEPT !.fut = "done"]
    /\ UNCHANGED <<pvars, reg_call, dh, srv, cp>>

NextShutdown ==
    \/ \E h \in Holders : Watch(h)
    \/ \E h \in Holders : WatcherDrop(h)
    \/ ShutdownCall
    \/ ShutdownRecv

SpecShutdown == Init /\ [][NextShutdown]_vars

\* The runtime polls the shutdown() future again when the channel closes.
SpecShutdownLive == SpecShutdown /\ WF_vars(ShutdownRecv)

\* C39: shutdown() does not complete while a Watcher is held: it completes
\* only from its await and with every Watcher that watch() gave out
\* dropped; and once it is awaited and no Watcher is held, at once when
\* there was none, it does complete.
C39_ShutdownWaitsForWatchers ==
    /\ [](sd.fut = "done" => HeldWatchers(sd) = {} /\ ~sd.sender)
    /\ [][(sd'.fut = "done" /\ sd.fut # "done") =>
            sd.fut = "pending" /\ HeldWatchers(sd) = {}]_vars
    /\ [](sd.fut # "none" => ~sd.sender)
    /\ ((sd.fut = "pending" /\ HeldWatchers(sd) = {}) ~> sd.fut = "done")

\* shutdown() has completed after two Watchers were given out and dropped.
C39_Witness ==
    /\ sd.fut = "done"
    /\ Cardinality({h \in Holders : sd.watchers[h] = "dropped"}) = 2

\* shutdown() is pending on a Watcher that is still held.
C39_WitnessPending ==
    /\ sd.fut = "pending"
    /\ Cardinality(HeldWatchers(sd)) = 1
    /\ \E h \in Holders : sd.watchers[h] = "dropped"

\* shutdown() has completed with no Watcher ever given out.
C39_WitnessNone ==
    /\ sd.fut = "done"
    /\ \A h \in Holders : sd.watchers[h] = "none"

-----------------------------------------------------------------------------
\* The accept loop and the connection service (server.rs, test.rs)

\* The app of the test: GET /hello answered with HELLO.
HELLO == "hello, world!"
PatHello == <<"/", "hello">>
HelloApp == register(NewRouter, "GET", PatHello, HELLO)

\* service_fn of App::run for the test's request: RouterEndpoint::call on
\* the app's router.
ServeHello == EndpointResponse(find(HelloApp, PatHello, "GET").endpoint)

\* App::run up to its loop: the listener is bound.
RunStart ==
    /\ srv.pc = "init"
    /\ srv' = [srv EXCEPT !.pc = "accepting", !.listener = TRUE]
    /\ UNCHANGED <<pvars, reg_call, dh, cp, sd>>

\* select!, the accept branch: the connection is given a task of its own
\* (tokio::spawn), which run() does not keep a handle of.
Accept(c) ==
    /\ srv.pc = "accepting"
    /\ srv.listener
    /\ srv.conns[c] = "none"
    /\ srv' = [srv EXCEPT !.conns[c] = "spawned"]
    /\ UNCHANGED <<pvars, reg_call, dh, cp, sd>>

\* The task of connection c serves its request and writes the response.
ServeConn(c) ==
    /\ srv.pc # "exited"
    /\ srv.conns[c] = "spawned"
    /\ srv' = [srv EXCEPT !.conns[c] = "served", !.resp[c] = ServeHello]
    /\ UNCHANGED <<pvars, reg_call, dh, cp, sd>>

\* select!, the ctrl_c branch: the listener is dropped, the loop is left
\* and run() returns Ok(()).
SignalReceived ==
    /\ srv.pc = "accepting"
    /\ srv' = [srv EXCEPT !.pc = "returned", !.listener = FALSE, !.result = "Ok"]
    /\ UNCHANGED <<pvars, reg_call, dh, cp, sd>>

\* A client connects when the listener is gone.
ConnectRefused(c) ==
    /\ srv.pc \in {"returned", "exited"}
    /\ srv.conns[c] = "none"
    /\ srv' = [srv EXCEPT !.conns[c] = "refused"]
    /\ UNCHANGED <<pvars, reg_call, dh, cp, sd>>

\* main() returns after app.run(..).await: the runtime is dropped, and the
\* tasks that have not finished with it.
RuntimeShutdown ==
    /\ srv.pc = "returned"
    /\ srv' = [srv EXCEPT !.pc = "exited",
                          !.conns = [c \in Conns |->
                                IF srv.conns[c] = "spawned" THEN "cancelled" ELSE srv.conns[c]]]
    /\ UNCHANGED <<pvars, reg_call, dh, cp, sd>>

\* drain::ReleaseShutdown::release_after(conn): the handle is released when
\* the connection future has completed.
release_after(conn) == conn = "finished"

\* ConnService::call: serve_connection on a new connection.
SvcCall(c) ==
    /\ srv.svc[c] = "idle"
    /\ srv' = [srv EXCEPT !.svc[c] = "serving"]
    /\ UNCHANGED <<pvars, reg_call, dh, cp, sd>>

\* select!, the connection branch: the client has closed the connection.
SvcConnDone(c) ==
    /\ srv.svc[c] = "serving"
    /\ srv' = [srv EXCEPT !.svc[c] = "closed"]
    /\ UNCHANGED <<pvars, reg_call, dh, cp, sd>>

\* The process signals the drain.
DrainSignal ==
    /\ ~srv.drain
    /\ srv' = [srv EXCEPT !.drain = TRUE]
    /\ UNCHANGED <<pvars, reg_call, dh, cp, sd>>

\* select!, the drain branch: graceful_shutdown() on the connection.
SvcSignaled(c) ==
    /\ srv.svc[c] = "serving"
    /\ srv.drain
    /\ srv' = [srv EXCEPT !.svc[c] = "draining", !.asked = @ \cup {c}]
    /\ UNCHANGED <<pvars, reg_call, dh, cp, sd>>

\* The connection that was asked to shut down finishes.
SvcConnFinished(c) ==
    /\ srv.svc[c] = "draining"
    /\ srv' = [srv EXCEPT !.svc[c] = "finished"]
    /\ UNCHANGED <<pvars, reg_call, dh, cp, sd>>

\* shutdown.release_after(conn).await returns: the drain handle is released.
SvcRelease(c) ==
    /\ srv.svc[c] \in {"draining", "finished"}
    /\ release_after(srv.svc[c])
    /\ srv' = [srv EXCEPT !.svc[c] = "released", !.released = @ \cup {c}]
    /\ UNCHANGED <<pvars, reg_call, dh, cp, sd>>

NextServer ==
    \/ RunStart
    \/ \E c \in Conns : Accept(c)
    \/ \E c \in Conns : ServeConn(c)
    \/ SignalReceived
    \/ \E c \in Conns : ConnectRefused(c)
    \/ RuntimeShutdown
    \/ \E c \in Conns : SvcCall(c)
    \/ \E c \in Conns : SvcConnDone(c)
    \/ DrainSignal
    \/ \E c \in Conns : SvcSignaled(c)
    \/ \E c \in Conns : SvcConnFinished(c)
    \/ \E c \in Conns : SvcRelease(c)

SpecServer == Init /\ [][NextServer]_vars

\* The runtime runs every task it has: the task of an accepted connection,
\* and the futures of the connection service.
SpecServerLive ==
    /\ SpecServer
    /\ \A c \in Conns : WF_vars(ServeConn(c))
    /\ \A c \in Conns : WF_vars(SvcSignaled(c))
    /\ \A c \in Conns : WF_vars(SvcConnFinished(c))
    /\ \A c \in Conns : WF_vars(SvcRelease(c))

\* The accept loop stops at the signal: no connection is accepted once the
\* signal was received, the listener is gone and run() has returned Ok.
StopsAccepting ==
    /\ [](srv.pc \in {"returned", "exited"} => ~srv.listener /\ srv.result = "Ok")
    /\ [][\A c \in Conns : (srv.conns[c] = "none" /\ srv'.conns[c] = "spawned") =>
            srv.pc = "accepting" /\ srv.listener]_vars
    /\ [](\A c \in Conns : srv.conns[c] = "served" => srv.resp[c] = HandlerResponse(HELLO))

\* The connection service asks a connection to shut down when the drain is
\* signalled, and releases the drain handle only when the connection has
\* finished.
ReleasedAfterFinished ==
    /\ [](srv.asked # {} => srv.drain)
    /\ [](srv.released \subseteq srv.asked)
    /\ [][\A c \in Conns : (c \in srv'.released /\ c \notin srv.released) =>
            srv.svc[c] = "finished" /\ c \in srv.asked]_vars
    /\ \A c \in Conns : (srv.svc[c] = "draining" ~> srv.svc[c] = "released")

\* C37: a request received before the shutdown signal is served with its
\* handler's response; once the signal is received no connection is
\* accepted and run() returns Ok; the connection service asks each
\* connection in flight to shut down gracefully and releases the drain
\* handle only after the connection has finished.
C37_GracefulShutdown ==
    /\ \A c \in Conns : (srv.conns[c] = "spawned" ~> srv.conns[c] = "served")
    /\ StopsAccepting
    /\ ReleasedAfterFinished

\* What holds of App::run: the request of a connection accepted before the
\* signal is served with "hello, world!" unless the runtime is dropped
\* first.
C37_ServedWhileRuntimeLives ==
    /\ \A c \in Conns :
            (srv.conns[c] = "spawned" ~> (srv.conns[c] = "served" \/ srv.pc = "exited"))
    /\ [](\A c \in Conns : srv.conns[c] = "cancelled" => srv.pc = "exited")
    /\ StopsAccepting
    /\ ReleasedAfterFinished

\* A request answered before the signal, run() returned Ok, a later
\* connection refused.
C37_WitnessServed ==
    /\ srv.pc = "returned"
    /\ srv.result = "Ok"
    /\ srv.conns[1] = "served"
    /\ srv.resp[1].body = HELLO
    /\ srv.conns[2] = "refused"

\* A connection accepted before the signal and dropped with the runtime.
C37_WitnessCancelled ==
    /\ srv.pc = "exited"
    /\ \E c \in Conns : srv.conns[c] = "cancelled"

\* The drain handle of a connection released after it finished.
C37_WitnessReleased ==
    /\ 1 \in srv.released
    /\ srv.svc[2] = "closed"

====
